---- MODULE Spec2Model ----
(***************************************************************************)
(* Connection manager (cdp/client.rs) and metrics engine (cdp/metrics.rs)  *)
(* of the Android WebView performance analyzer.                            *)
(*                                                                         *)
(* Representation of values:                                               *)
(*   Option<T>   None is <<>>, Some(x) is <<x>>.                           *)
(*   f64 seconds (CDP timestamps) are held in thousandths of a second, so  *)
(*     t = 0.050 s is 50; the code's `x * 1000.0` on such a value is       *)
(*     (x * 1000) \div 1000.                                               *)
(*   f64 milliseconds and byte counts are held as integers.                *)
(***************************************************************************)
EXTENDS Integers, Sequences, FiniteSets, TLC

VARIABLES
    \* ---- CdpClient (cdp/client.rs) ----
    state,        \* CdpClient.state : ConnectionState
    browser,      \* CdpClient.browser : Option<Browser>, <<>> or <<connection id>>
    page,         \* CdpClient.page : Option<Page>, <<>> or <<connection id>>
    handler,      \* per connection id: the frame-pump task spawned by connect()
    transport,    \* per connection id: the websocket under the Browser
    cpc,          \* per caller: position inside connect()/disconnect()/enable_*/get_*
    cconn,        \* per caller: the connection id its connect() call opened (0: none)
    cpage,        \* per caller: the local `page` of connect(), an Option
    cret,         \* per caller: result of the caller's last finished call
    commands,     \* number of protocol commands issued through page.execute
    cdp_events,   \* everything sent on CdpClient.event_tx, in order
    listeners,    \* the listener tasks spawned by enable_network(), in spawn order
    ncalls,       \* number of CdpClient calls started so far
    \* ---- MetricsCollector (cdp/metrics.rs) ----
    app_handle,   \* MetricsCollector.app_handle is Some
    dropped,      \* the MetricsCollector value has been dropped by its holder
    current_session, \* ManagedState.current_session_id, an Option
    fetched,      \* the last reply get_performance_metrics() mapped, with its result
    prev_poll_pc, \* the poll loop an earlier start() of this collector spawned
    prev_corr_pc, \* the correlation loop an earlier start() spawned
    prev_rx,      \* that correlation loop's receiver; Lagged marks an overrun
    collecting,   \* MetricsCollector.collecting
    requests,     \* MetricsCollector.requests : request_id -> TrackedRequest
    poll_pc,      \* position of the poll loop task
    corr_pc,      \* position of the correlation loop task
    cdp_rx,       \* the correlation loop's broadcast receiver: events not yet received
    rx_lagged,    \* that receiver was overrun since its last recv()
    bus_closed,   \* every Sender of the CdpClient bus has been dropped
    start_pc,     \* position of the start() call, then its result
    ticks,        \* poll iterations that went on to fetch
    nraw,         \* protocol events the page has delivered
    published,    \* everything sent on MetricsCollector.event_tx, in order
    notified,     \* everything emitted through app_handle.emit, in order
    db_requests,  \* table network_requests : id -> row
    db_metrics,   \* table metrics, in insertion order
    db_writes,    \* number of store_metric / store_network_request calls
    \* ---- history ----
    processed,    \* raw events handed to process_cdp_event, in order
    after_stop    \* per loop: iterations that published since collecting was cleared

vars == <<state, browser, page, handler, transport, cpc, cconn, cpage, cret,
          commands, cdp_events, listeners, ncalls,
          app_handle, dropped, current_session, fetched, prev_poll_pc, prev_corr_pc, prev_rx,
          collecting, requests, poll_pc, corr_pc, cdp_rx,
          rx_lagged,
          bus_closed, start_pc, ticks, nraw,
          published, notified, db_requests, db_metrics, db_writes,
          processed, after_stop>>

connVars == <<state, browser, page, handler, transport, cpc, cconn, cpage, cret,
              commands, cdp_events, listeners, ncalls>>

ownerVars == <<app_handle, dropped, current_session, fetched, prev_poll_pc,
              prev_corr_pc>>

loopVars == <<collecting, poll_pc, corr_pc, bus_closed, start_pc, ticks, nraw,
             after_stop>>

rxVars == <<cdp_rx, rx_lagged, prev_rx>>

sinkVars == <<requests, published, notified, db_requests, db_metrics, db_writes,
              processed>>

-----------------------------------------------------------------------------
(* Bounds *)

MaxProcessed == 3   \* raw events handed to process_cdp_event in SpecCorr
MaxRaw == 3         \* raw events put on the CdpClient bus in SpecLoop
MaxTicks == 2       \* poll iterations that fetch in SpecLoop
MaxInputs == 3      \* raw events and fetching poll iterations together in SpecLoop
MaxCalls == 3       \* CdpClient calls started in SpecConn
BusCapacity == 1    \* capacity of the CdpClient broadcast channel (1000 in the code)

-----------------------------------------------------------------------------
(* Values *)

None == <<>>
Some(x) == <<x>>
IsSome(o) == o # <<>>
Unwrap(o) == o[1]

RequestIds == {"r1", "r2"}
Targets == { [url |-> "https://a/x", method |-> "GET"],
             [url |-> "https://b/y", method |-> "POST"] }
RequestTimes == {0, 50}
ResponseTimes == {50}
FinishedTimes == {200}
Statuses == {200, 404}
Sizes == {512, 1024}
SessionId == "s1"
Callers == {1, 2}
ConnIds == 1..MaxCalls      \* every connect() call opens at most one connection

\* CdpEvent (cdp/client.rs)
EvConnected == [type |-> "Connected"]
EvDisconnected == [type |-> "Disconnected"]
EvNetworkRequest(id, url, method, ts) ==
    [type |-> "NetworkRequest", request_id |-> id, url |-> url, method |-> method,
     timestamp |-> ts]
EvNetworkResponse(id, status, ts) ==
    [type |-> "NetworkResponse", request_id |-> id, status |-> status, timestamp |-> ts]
EvNetworkFinished(id, len, ts) ==
    [type |-> "NetworkFinished", request_id |-> id, encoded_data_length |-> len,
     timestamp |-> ts]

NetworkEvents ==
    { EvNetworkRequest(id, t.url, t.method, ts) :
        id \in RequestIds, t \in Targets, ts \in RequestTimes }
    \cup { EvNetworkResponse(id, st, ts) :
        id \in RequestIds, st \in Statuses, ts \in ResponseTimes }
    \cup { EvNetworkFinished(id, len, ts) :
        id \in RequestIds, len \in Sizes, ts \in FinishedTimes }

IsNetwork(e) == e.type \in {"NetworkRequest", "NetworkResponse", "NetworkFinished"}

\* `x * 1000.0` on an f64 number of seconds (held in thousandths)
Times1000(x) == (x * 1000) \div 1000

-----------------------------------------------------------------------------
(* MetricsCollector::process_cdp_event *)

TrackedRequest(e) ==
    [request_id |-> e.request_id, url |-> e.url, method |-> e.method,
     request_timestamp |-> e.timestamp, response_timestamp |-> None,
     status |-> None, encoded_data_length |-> None, finished_timestamp |-> None]

InsertRequest_KeepExisting(e, reqs) ==
    IF e.request_id \in DOMAIN reqs THEN reqs
    ELSE [id \in DOMAIN reqs \cup {e.request_id} |->
            IF id = e.request_id THEN TrackedRequest(e) ELSE reqs[id]]

\* reqs.insert(request_id, TrackedRequest {..})
InsertRequest(e, reqs) ==
    [id \in DOMAIN reqs \cup {e.request_id} |->
        IF id = e.request_id THEN TrackedRequest(e) ELSE reqs[id]]

StampResponse_Insert(e, reqs) ==
    [id \in DOMAIN reqs \cup {e.request_id} |->
        IF id = e.request_id
        THEN [request_id |-> e.request_id, url |-> "", method |-> "",
              request_timestamp |-> e.timestamp,
              response_timestamp |-> Some(e.timestamp), status |-> Some(e.status),
              encoded_data_length |-> None, finished_timestamp |-> None]
        ELSE reqs[id]]

StampResponse_Take(e, reqs) ==
    [id \in DOMAIN reqs \ {e.request_id} |-> reqs[id]]

\* if let Some(req) = reqs.get_mut(&request_id) { req.response_timestamp = ..; req.status = .. }
StampResponse(e, reqs) ==
    IF e.request_id \in DOMAIN reqs
    THEN [reqs EXCEPT ![e.request_id] =
            [@ EXCEPT !.response_timestamp = Some(e.timestamp),
                      !.status = Some(e.status)]]
    ELSE reqs

RemoveRequest_Keep(e, reqs) == reqs

RemoveRequest_Clear(e, reqs) == <<>>

\* reqs.remove(&request_id)
RemoveRequest(e, reqs) ==
    [id \in DOMAIN reqs \ {e.request_id} |-> reqs[id]]

\* the correlation table after process_cdp_event(e)
RequestsAfter(e, reqs) ==
    CASE e.type = "NetworkRequest" -> InsertRequest(e, reqs)
      [] e.type = "NetworkResponse" -> StampResponse(e, reqs)
      [] e.type = "NetworkFinished" -> RemoveRequest(e, reqs)
      [] OTHER -> reqs

\* the initial StoredNetworkRequest of the NetworkRequest arm
InitialRecord(e) ==
    [id |-> e.request_id, session_id |-> SessionId, url |-> e.url,
     method |-> Some(e.method), status_code |-> None,
     request_time |-> Times1000(e.timestamp), response_time |-> None,
     duration_ms |-> None, size_bytes |-> None]

\* the final StoredNetworkRequest of the NetworkFinished arm, req being the removed entry
FinalRecord(e, req) ==
    [id |-> req.request_id, session_id |-> SessionId, url |-> req.url,
     method |-> Some(req.method), status_code |-> req.status,
     request_time |-> Times1000(req.request_timestamp),
     response_time |-> Some(Times1000(e.timestamp)),
     duration_ms |-> Some(Times1000(e.timestamp - req.request_timestamp)),
     size_bytes |-> Some(e.encoded_data_length)]

\* the StoredNetworkRequest handed to store_network_request, as an Option
StoredFor(e, reqs) ==
    CASE e.type = "NetworkRequest" -> Some(InitialRecord(e))
      [] e.type = "NetworkFinished" /\ e.request_id \in DOMAIN reqs ->
            Some(FinalRecord(e, reqs[e.request_id]))
      [] OTHER -> None

\* MetricsEvent::NetworkRequest of the NetworkRequest arm
RequestEvent(e) ==
    [type |-> "NetworkRequest", request_id |-> e.request_id,
     url |-> e.url, method |-> e.method, timestamp |-> e.timestamp]

ResponseEvent_Zero(e, reqs) ==
    [type |-> "NetworkResponse", request_id |-> e.request_id,
     status |-> e.status, timestamp |-> e.timestamp,
     duration_ms |->
        IF e.request_id \in DOMAIN reqs
        THEN Some(Times1000(e.timestamp - reqs[e.request_id].request_timestamp))
        ELSE Some(0)]

\* MetricsEvent::NetworkResponse of the NetworkResponse arm
ResponseEvent(e, reqs) ==
    [type |-> "NetworkResponse", request_id |-> e.request_id,
     status |-> e.status, timestamp |-> e.timestamp,
     duration_ms |->
        IF e.request_id \in DOMAIN reqs
        THEN Some(Times1000(e.timestamp - reqs[e.request_id].request_timestamp))
        ELSE None]

CompleteEvent_NoStatus(e, req) ==
    [type |-> "NetworkComplete", request_id |-> req.request_id,
     url |-> req.url, method |-> req.method, status |-> None,
     duration_ms |-> Times1000(e.timestamp - req.request_timestamp),
     size_bytes |-> e.encoded_data_length]

\* MetricsEvent::NetworkComplete of the NetworkFinished arm, req being the removed entry
CompleteEvent(e, req) ==
    [type |-> "NetworkComplete", request_id |-> req.request_id,
     url |-> req.url, method |-> req.method, status |-> req.status,
     duration_ms |-> Times1000(e.timestamp - req.request_timestamp),
     size_bytes |-> e.encoded_data_length]

MetricsEventFor_Fabricate(e, reqs) ==
    CASE e.type = "NetworkRequest" -> Some(RequestEvent(e))
      [] e.type = "NetworkResponse" -> Some(ResponseEvent(e, reqs))
      [] e.type = "NetworkFinished" ->
            IF e.request_id \in DOMAIN reqs
            THEN Some(CompleteEvent(e, reqs[e.request_id]))
            ELSE Some([type |-> "NetworkComplete", request_id |-> e.request_id,
                       url |-> "", method |-> "", status |-> None,
                       duration_ms |-> 0, size_bytes |-> e.encoded_data_length])
      [] OTHER -> None

\* the MetricsEvent published for the event, as an Option
MetricsEventFor(e, reqs) ==
    CASE e.type = "NetworkRequest" -> Some(RequestEvent(e))
      [] e.type = "NetworkResponse" -> Some(ResponseEvent(e, reqs))
      [] e.type = "NetworkFinished" /\ e.request_id \in DOMAIN reqs ->
            Some(CompleteEvent(e, reqs[e.request_id]))
      [] OTHER -> None

StoreNetworkRequest_Ignore(db, row) ==
    IF row.id \in DOMAIN db THEN db
    ELSE [id \in DOMAIN db \cup {row.id} |-> IF id = row.id THEN row ELSE db[id]]

\* Database::store_network_request: INSERT OR REPLACE keyed by id
StoreNetworkRequest(db, row) ==
    [id \in DOMAIN db \cup {row.id} |-> IF id = row.id THEN row ELSE db[id]]

ProcessCdpEvent_StoreGate(e, store_ok) ==
    LET stored == StoredFor(e, requests)
        event == MetricsEventFor(e, requests)
        sent == IsSome(event) /\ (IsSome(stored) => store_ok)
    IN  /\ requests' = RequestsAfter(e, requests)
        /\ db_writes' = IF IsSome(stored) THEN db_writes + 1 ELSE db_writes
        /\ db_requests' = IF IsSome(stored) /\ store_ok
                          THEN StoreNetworkRequest(db_requests, Unwrap(stored))
                          ELSE db_requests
        /\ notified' = IF sent /\ app_handle
                       THEN Append(notified, [name |-> "metrics:network",
                                              payload |-> Unwrap(event)])
                       ELSE notified
        /\ published' = IF sent THEN Append(published, Unwrap(event)) ELSE published
        /\ processed' = Append(processed, e)
        /\ UNCHANGED db_metrics

\* One call of process_cdp_event; store_ok is the outcome of the storage write.
ProcessCdpEvent(e, store_ok) ==
    LET stored == StoredFor(e, requests)
        event == MetricsEventFor(e, requests)
    IN  /\ requests' = RequestsAfter(e, requests)
        /\ db_writes' = IF IsSome(stored) THEN db_writes + 1 ELSE db_writes
        /\ db_requests' = IF IsSome(stored) /\ store_ok
                          THEN StoreNetworkRequest(db_requests, Unwrap(stored))
                          ELSE db_requests
        /\ notified' = IF IsSome(event) /\ app_handle
                       THEN Append(notified, [name |-> "metrics:network",
                                              payload |-> Unwrap(event)])
                       ELSE notified
        /\ published' = IF IsSome(event) THEN Append(published, Unwrap(event))
                        ELSE published
        /\ processed' = Append(processed, e)
        /\ UNCHANGED db_metrics

\* whether the storage write of this call can fail (it is attempted at all)
StoreOutcomes(e) ==
    IF IsSome(StoredFor(e, requests)) THEN BOOLEAN ELSE {TRUE}

-----------------------------------------------------------------------------
(* SpecCorr: process_cdp_event applied to every sequence of raw events *)

Init ==
    /\ state = "Disconnected"
    /\ browser = None
    /\ page = None
    /\ handler = <<>>
    /\ transport = <<>>
    /\ cpc = [c \in Callers |-> "idle"]
    /\ cconn = [c \in Callers |-> 0]
    /\ cpage = [c \in Callers |-> None]
    /\ cret = [c \in Callers |-> "none"]
    /\ commands = 0
    /\ cdp_events = <<>>
    /\ listeners = <<>>
    /\ ncalls = 0
    /\ app_handle \in BOOLEAN
    /\ dropped = FALSE
    /\ current_session = Some(SessionId)
    /\ fetched = None
    /\ prev_poll_pc = "none"
    /\ prev_corr_pc = "none"
    /\ prev_rx = <<>>
    /\ collecting = FALSE
    /\ requests = <<>>
    /\ poll_pc = "none"
    /\ corr_pc = "none"
    /\ cdp_rx = <<>>
    /\ rx_lagged = FALSE
    /\ bus_closed = FALSE
    /\ start_pc = "idle"
    /\ ticks = 0
    /\ nraw = 0
    /\ published = <<>>
    /\ notified = <<>>
    /\ db_requests = <<>>
    /\ db_metrics = <<>>
    /\ db_writes = 0
    /\ processed = <<>>
    /\ after_stop = [l \in {"poll", "corr"} |-> 0]

CorrProcess ==
    /\ Len(processed) < MaxProcessed
    /\ \E e \in NetworkEvents \cup {EvConnected, EvDisconnected} :
       \E store_ok \in StoreOutcomes(e) :
          ProcessCdpEvent(e, store_ok)
    /\ UNCHANGED <<connVars, loopVars, rxVars, ownerVars>>

NextCorr == CorrProcess

SpecCorr == Init /\ [][NextCorr]_vars

-----------------------------------------------------------------------------
(* History of one request id in `processed` *)

IsRequest(e, x) == e.type = "NetworkRequest" /\ e.request_id = x
IsResponse(e, x) == e.type = "NetworkResponse" /\ e.request_id = x
IsFinished(e, x) == e.type = "NetworkFinished" /\ e.request_id = x

MaxOf(S) == CHOOSE m \in S : \A n \in S : n <= m

\* index of the latest request-sent or load-finished of x before position j (0: none)
Prior(j, x) ==
    MaxOf({0} \cup {i \in 1..(j - 1) :
                      IsRequest(processed[i], x) \/ IsFinished(processed[i], x)})

\* positions of the load-finished events of x that follow a request-sent of x
Pairs(x) ==
    {j \in 1..Len(processed) :
        /\ IsFinished(processed[j], x)
        /\ Prior(j, x) > 0
        /\ IsRequest(processed[Prior(j, x)], x)}

\* status of the latest response-received of x strictly between i and j, as an Option
StampedStatus(i, j, x) ==
    LET R == {k \in (i + 1)..(j - 1) : IsResponse(processed[k], x)}
    IN  IF R = {} THEN None ELSE Some(processed[MaxOf(R)].status)

IsComplete(ev, x) == ev.type = "NetworkComplete" /\ ev.request_id = x

\* the NetworkComplete events published for x, in publication order
CompletesOf(x) == SelectSeq(published, LAMBDA ev : IsComplete(ev, x))

\* the NetworkComplete event belonging to the pair that ends at position j
CompleteOfPair(j, x) ==
    CompletesOf(x)[Cardinality({k \in Pairs(x) : k <= j})]

NumCompletes(log) ==
    Cardinality({k \in 1..Len(log) : log[k].type = "NetworkComplete"})

\* the step handed one raw event to process_cdp_event
ProcessedOne == Len(processed') = Len(processed) + 1
LastProcessed == processed'[Len(processed')]

-----------------------------------------------------------------------------
(* Claims on process_cdp_event, checked under SpecCorr *)

\* C1: for every request_id, once a request-sent and then a load-finished of that
\* id have been processed, exactly one NetworkComplete has been published for the
\* pair, its duration_ms is the finished timestamp minus the request timestamp in
\* milliseconds, and the table holds no entry for the id (until a later
\* request-sent of the id).
C1_PairCompletesOnce ==
    \A x \in RequestIds :
        /\ Len(CompletesOf(x)) = Cardinality(Pairs(x))
        /\ \A j \in Pairs(x) :
            /\ CompleteOfPair(j, x).duration_ms =
                  processed[j].timestamp - processed[Prior(j, x)].timestamp
            /\ (\A k \in (j + 1)..Len(processed) : ~IsRequest(processed[k], x))
                  => x \notin DOMAIN requests

C1_Witness ==
    \E x \in RequestIds :
        /\ Pairs(x) # {}
        /\ Len(CompletesOf(x)) = 1
        /\ CompletesOf(x)[1].duration_ms = 200
        /\ x \notin DOMAIN requests

\* C2: NetworkComplete is published exactly when a pending entry is removed, once
\* per removal, and carries the removed entry's url and method, the status of the
\* latest response-received processed for that entry (absent if none), the
\* load-finished event's byte size and the request-to-finished duration.
C2_CompleteFields ==
    \A x \in RequestIds : \A j \in Pairs(x) :
        LET i == Prior(j, x)
            c == CompleteOfPair(j, x)
        IN  /\ Len(CompletesOf(x)) = Cardinality(Pairs(x))
            /\ c.url = processed[i].url
            /\ c.method = processed[i].method
            /\ c.status = StampedStatus(i, j, x)
            /\ c.size_bytes = processed[j].encoded_data_length
            /\ c.duration_ms = processed[j].timestamp - processed[i].timestamp

C2_OncePerRemoval ==
    NumCompletes(published') - NumCompletes(published)
        = Cardinality(DOMAIN requests \ DOMAIN requests')

C2_Scenario ==
    processed = <<EvNetworkRequest("r1", "https://a/x", "GET", 0),
                  EvNetworkResponse("r1", 200, 50),
                  EvNetworkFinished("r1", 1024, 200)>>
    => published[3] = [type |-> "NetworkComplete", request_id |-> "r1",
                       url |-> "https://a/x", method |-> "GET",
                       status |-> Some(200), duration_ms |-> 200,
                       size_bytes |-> 1024]

C2_CompletedRecord ==
    [](C2_CompleteFields /\ C2_Scenario) /\ [][C2_OncePerRemoval]_vars

C2_Witness ==
    /\ Len(processed) = 3
    /\ IsRequest(processed[1], "r1")
    /\ IsResponse(processed[2], "r1")
    /\ IsFinished(processed[3], "r1")
    /\ published[3].type = "NetworkComplete"
    /\ published[3].status = Some(processed[2].status)

\* C3: a response-received event whose request_id has no entry in the table
\* publishes a NetworkResponse with duration_ms absent and leaves the table
\* unchanged.
C3_UnknownResponse ==
    [][ (/\ ProcessedOne
         /\ LastProcessed.type = "NetworkResponse"
         /\ LastProcessed.request_id \notin DOMAIN requests)
        => (/\ published' = Append(published,
                    [type |-> "NetworkResponse",
                     request_id |-> LastProcessed.request_id,
                     status |-> LastProcessed.status,
                     timestamp |-> LastProcessed.timestamp,
                     duration_ms |-> None])
            /\ requests' = requests) ]_vars

C3_Witness ==
    \E x \in RequestIds : \E j \in 1..Len(processed) :
        /\ IsResponse(processed[j], x)
        /\ Prior(j, x) = 0 \/ IsFinished(processed[Prior(j, x)], x)
        /\ j = Len(processed)
        /\ published[Len(published)].type = "NetworkResponse"
        /\ published[Len(published)].duration_ms = None
        /\ x \notin DOMAIN requests

\* C4: a load-finished event whose request_id has no entry in the table publishes
\* nothing, emits no notification, writes nothing to storage and leaves the table
\* unchanged.
C4_UnknownFinished ==
    [][ (/\ ProcessedOne
         /\ LastProcessed.type = "NetworkFinished"
         /\ LastProcessed.request_id \notin DOMAIN requests)
        => UNCHANGED <<published, notified, db_requests, db_metrics, db_writes,
                       requests>> ]_vars

C4_Witness ==
    \E x \in RequestIds :
        /\ Len(processed) > 1
        /\ IsFinished(processed[Len(processed)], x)
        /\ Prior(Len(processed), x) = 0
        /\ Len(published) = Len(processed) - 1
        /\ requests # <<>>

-----------------------------------------------------------------------------
(* CdpClient (cdp/client.rs) *)

\* the state of the metrics engine, which no CdpClient call touches
engineVars == <<ownerVars, loopVars, sinkVars>>

\* the correlation loop's Receiver exists from subscribe() until its task ends
RxLive == corr_pc \in {"check", "recv"}

\* the receiver of the correlation loop of an earlier start(), likewise
PrevRxLive == prev_corr_pc \in {"check", "recv"}

\* RecvError::Lagged, kept in the queue at the place where recv() returns it
Lagged == [type |-> "Lagged"]

\* the events a receiver still holds
Held(q) == SelectSeq(q, LAMBDA x : x.type # "Lagged")

\* a receiver's queue after a send: beyond the capacity the oldest events are lost
\* and the next recv() returns Lagged
Overrun(q) ==
    IF Len(Held(q)) <= BusCapacity THEN q
    ELSE <<Lagged>> \o SubSeq(Held(q), Len(Held(q)) - BusCapacity + 1, Len(Held(q)))

\* broadcast::Sender::send on CdpClient.event_tx: never blocks; a receiver that is
\* a full buffer behind loses the oldest event and is marked lagged
BusSend(e) ==
    /\ cdp_events' = Append(cdp_events, e)
    /\ IF ~RxLive THEN UNCHANGED <<cdp_rx, rx_lagged>>
       ELSE IF Len(cdp_rx) < BusCapacity
            THEN cdp_rx' = Append(cdp_rx, e) /\ UNCHANGED rx_lagged
            ELSE cdp_rx' = Append(Tail(cdp_rx), e) /\ rx_lagged' = TRUE
    /\ prev_rx' = IF PrevRxLive THEN Overrun(Append(prev_rx, e)) ELSE prev_rx

NoSend == UNCHANGED <<cdp_events, rxVars>>

\* some call holds the read lock of CdpClient.page across a protocol round trip
PageReadLocked ==
    \/ \E c \in Callers :
        cpc[c] \in {"perf_reply", "get_reply", "net_reply", "net_l1", "net_l2", "net_l3"}
    \/ start_pc \in {"perf_reply", "net_reply", "net_l1", "net_l2", "net_l3"}
    \/ poll_pc = "reply"
    \/ prev_poll_pc = "reply"

\* the call of caller c returns: its locals are dropped
Return(c, result) ==
    /\ cpc' = [cpc EXCEPT ![c] = "idle"]
    /\ cret' = [cret EXCEPT ![c] = result]
    /\ cconn' = [cconn EXCEPT ![c] = 0]
    /\ cpage' = [cpage EXCEPT ![c] = None]

\* the call of caller c moves on to its next await point
Goto(c, pc) ==
    /\ cpc' = [cpc EXCEPT ![c] = pc]
    /\ UNCHANGED <<cret, cconn, cpage>>

\* a new call starts on an idle caller
CallBegin(c) ==
    /\ cpc[c] = "idle"
    /\ ncalls < MaxCalls
    /\ ncalls' = ncalls + 1

\* connect(): *state = ConnectionState::Connecting
ConnectBegin(c) ==
    /\ CallBegin(c)
    /\ state' = "Connecting"
    /\ Goto(c, "c_connect")
    /\ NoSend
    /\ UNCHANGED engineVars
    /\ UNCHANGED <<browser, page, handler, transport, commands, listeners>>

\* connect(): Browser::connect returned Ok; the handler task is spawned
ConnectOpened(c) ==
    /\ cpc[c] = "c_connect"
    /\ transport' = Append(transport, "open")
    /\ handler' = Append(handler, "running")
    /\ cpc' = [cpc EXCEPT ![c] = "c_pages"]
    /\ cconn' = [cconn EXCEPT ![c] = Len(transport) + 1]
    /\ NoSend
    /\ UNCHANGED engineVars
    /\ UNCHANGED <<state, browser, page, cpage, cret, commands, listeners, ncalls>>

ConnectFailed_SetsError(c) ==
    /\ cpc[c] = "c_connect"
    /\ state' = "Error"
    /\ Return(c, "ConnectionFailed")
    /\ NoSend
    /\ UNCHANGED engineVars
    /\ UNCHANGED <<browser, page, handler, transport, commands, listeners, ncalls>>

\* connect(): Browser::connect returned an error or the 10 s timeout elapsed
ConnectFailed(c) ==
    /\ cpc[c] = "c_connect"
    /\ state' = "Disconnected"
    /\ Return(c, "ConnectionFailed")
    /\ NoSend
    /\ UNCHANGED engineVars
    /\ UNCHANGED <<browser, page, handler, transport, commands, listeners, ncalls>>

\* connect(): browser.pages().await returned Err, propagated by `?`
ConnectPagesError(c) ==
    /\ cpc[c] = "c_pages"
    /\ Return(c, "BrowserError")
    /\ NoSend
    /\ UNCHANGED engineVars
    /\ UNCHANGED <<state, browser, page, handler, transport, commands, listeners,
                   ncalls>>

\* connect(): browser.pages().await returned Ok, with or without a first page
ConnectPages(c) ==
    /\ cpc[c] = "c_pages"
    /\ transport[cconn[c]] = "open"
    /\ \E found \in BOOLEAN :
        /\ cpage' = [cpage EXCEPT ![c] = IF found THEN Some(cconn[c]) ELSE None]
        /\ cpc' = [cpc EXCEPT ![c] = IF found THEN "c_setbrowser" ELSE "c_newpage"]
    /\ NoSend
    /\ UNCHANGED engineVars
    /\ UNCHANGED <<state, browser, page, handler, transport, cconn, cret, commands,
                   listeners, ncalls>>

\* connect(): browser.new_page("about:blank").await.ok()
ConnectNewPage(c) ==
    /\ cpc[c] = "c_newpage"
    /\ \E created \in BOOLEAN :
        /\ created => transport[cconn[c]] = "open"
        /\ cpage' = [cpage EXCEPT ![c] = IF created THEN Some(cconn[c]) ELSE None]
    /\ cpc' = [cpc EXCEPT ![c] = "c_setbrowser"]
    /\ NoSend
    /\ UNCHANGED engineVars
    /\ UNCHANGED <<state, browser, page, handler, transport, cconn, cret, commands,
                   listeners, ncalls>>

\* connect(): *browser_lock = Some(browser)
ConnectSetBrowser(c) ==
    /\ cpc[c] = "c_setbrowser"
    /\ browser' = Some(cconn[c])
    /\ Goto(c, "c_setpage")
    /\ NoSend
    /\ UNCHANGED engineVars
    /\ UNCHANGED <<state, page, handler, transport, commands, listeners, ncalls>>

\* connect(): if let Some(p) = page { *page_lock = Some(p) }
ConnectSetPage(c) ==
    /\ cpc[c] = "c_setpage"
    /\ IsSome(cpage[c])
    /\ ~PageReadLocked
    /\ page' = cpage[c]
    /\ Goto(c, "c_setstate")
    /\ NoSend
    /\ UNCHANGED engineVars
    /\ UNCHANGED <<state, browser, handler, transport, commands, listeners, ncalls>>

\* connect(): else { *state = Disconnected; return Err(ConnectionFailed) }
ConnectNoPage(c) ==
    /\ cpc[c] = "c_setpage"
    /\ ~IsSome(cpage[c])
    /\ state' = "Disconnected"
    /\ Return(c, "ConnectionFailed")
    /\ NoSend
    /\ UNCHANGED engineVars
    /\ UNCHANGED <<browser, page, handler, transport, commands, listeners, ncalls>>

\* connect(): *state = ConnectionState::Connected
ConnectSetState(c) ==
    /\ cpc[c] = "c_setstate"
    /\ state' = "Connected"
    /\ Goto(c, "c_send")
    /\ NoSend
    /\ UNCHANGED engineVars
    /\ UNCHANGED <<browser, page, handler, transport, commands, listeners, ncalls>>

ConnectReturn_NoSend(c) ==
    /\ cpc[c] = "c_send"
    /\ NoSend
    /\ UNCHANGED engineVars
    /\ Return(c, "Ok")
    /\ UNCHANGED <<state, browser, page, handler, transport, commands, listeners,
                   ncalls>>

\* connect(): event_tx.send(CdpEvent::Connected); Ok(())
ConnectReturn(c) ==
    /\ cpc[c] = "c_send"
    /\ BusSend(EvConnected)
    /\ UNCHANGED engineVars
    /\ Return(c, "Ok")
    /\ UNCHANGED <<state, browser, page, handler, transport, commands, listeners,
                   ncalls>>

\* disconnect() is called and waits for the write lock of page
DisconnectBegin(c) ==
    /\ CallBegin(c)
    /\ Goto(c, "d_page")
    /\ NoSend
    /\ UNCHANGED engineVars
    /\ UNCHANGED <<state, browser, page, handler, transport, commands, listeners>>

\* disconnect(): *page_lock = None
DisconnectPage(c) ==
    /\ cpc[c] = "d_page"
    /\ ~PageReadLocked
    /\ page' = None
    /\ Goto(c, "d_browser")
    /\ NoSend
    /\ UNCHANGED engineVars
    /\ UNCHANGED <<state, browser, handler, transport, commands, listeners, ncalls>>

\* disconnect(): *browser_lock = None
DisconnectBrowser(c) ==
    /\ cpc[c] = "d_browser"
    /\ browser' = None
    /\ Goto(c, "d_state")
    /\ NoSend
    /\ UNCHANGED engineVars
    /\ UNCHANGED <<state, page, handler, transport, commands, listeners, ncalls>>

DisconnectState_Skip(c) ==
    /\ cpc[c] = "d_state"
    /\ Goto(c, "d_send")
    /\ NoSend
    /\ UNCHANGED engineVars
    /\ UNCHANGED <<state, browser, page, handler, transport, commands, listeners,
                   ncalls>>

\* disconnect(): *state = ConnectionState::Disconnected
DisconnectState(c) ==
    /\ cpc[c] = "d_state"
    /\ state' = "Disconnected"
    /\ Goto(c, "d_send")
    /\ NoSend
    /\ UNCHANGED engineVars
    /\ UNCHANGED <<browser, page, handler, transport, commands, listeners, ncalls>>

DisconnectReturn_Silent(c) ==
    /\ cpc[c] = "d_send"
    /\ NoSend
    /\ UNCHANGED engineVars
    /\ Return(c, "Ok")
    /\ UNCHANGED <<state, browser, page, handler, transport, commands, listeners,
                   ncalls>>

\* disconnect(): event_tx.send(CdpEvent::Disconnected); Ok(())
DisconnectReturn(c) ==
    /\ cpc[c] = "d_send"
    /\ BusSend(EvDisconnected)
    /\ UNCHANGED engineVars
    /\ Return(c, "Ok")
    /\ UNCHANGED <<state, browser, page, handler, transport, commands, listeners,
                   ncalls>>

DomainOps == {"enable_performance", "enable_network", "get_performance_metrics"}

\* where the call waits for the reply of page.execute
ReplyPc(op) ==
    CASE op = "enable_performance" -> "perf_reply"
      [] op = "enable_network" -> "net_reply"
      [] op = "get_performance_metrics" -> "get_reply"

\* page_lock.as_ref().ok_or(CdpError::NotConnected): the call may proceed
PageCheck(pg) == IsSome(pg)

\* enable_performance / enable_network / get_performance_metrics: the page check
\* fails and the call returns NotConnected
DomainNotConnected(c, op) ==
    /\ CallBegin(c)
    /\ ~PageCheck(page)
    /\ Return(c, "NotConnected")
    /\ NoSend
    /\ UNCHANGED engineVars
    /\ UNCHANGED <<state, browser, page, handler, transport, commands, listeners>>

\* enable_performance / enable_network / get_performance_metrics: the page check
\* passes and page.execute(..) sends the protocol command on that page
DomainExecute(c, op) ==
    /\ CallBegin(c)
    /\ PageCheck(page)
    /\ commands' = commands + 1
    /\ cpc' = [cpc EXCEPT ![c] = ReplyPc(op)]
    /\ cconn' = [cconn EXCEPT ![c] = Unwrap(page)]
    /\ NoSend
    /\ UNCHANGED engineVars
    /\ UNCHANGED <<state, browser, page, handler, transport, cpage, cret, listeners>>

\* connection n can still answer a command
Answers(n) == transport[n] = "open" /\ handler[n] = "running"

\* enable_performance / get_performance_metrics: the reply of page.execute arrives
DomainReply(c) ==
    /\ cpc[c] \in {"perf_reply", "get_reply"}
    /\ \E ok \in BOOLEAN :
        /\ ok => Answers(cconn[c])
        /\ Return(c, IF ok THEN "Ok" ELSE "BrowserError")
    /\ NoSend
    /\ UNCHANGED engineVars
    /\ UNCHANGED <<state, browser, page, handler, transport, commands, listeners,
                   ncalls>>

\* enable_network: the reply of page.execute(NetworkEnableParams) arrives
NetworkReply(c) ==
    /\ cpc[c] = "net_reply"
    /\ \E ok \in BOOLEAN :
        /\ ok => Answers(cconn[c])
        /\ IF ok THEN Goto(c, "net_l1") ELSE Return(c, "BrowserError")
    /\ NoSend
    /\ UNCHANGED engineVars
    /\ UNCHANGED <<state, browser, page, handler, transport, commands, listeners,
                   ncalls>>

\* a listener task: its event stream (queue) and whether the task still runs
Listener(kind, conn) ==
    [kind |-> kind, conn |-> conn, queue |-> <<>>, live |-> TRUE]

\* the event kind whose listener enable_network registers at this point
ListenKind(pc) ==
    CASE pc = "net_l1" -> "NetworkRequest"
      [] pc = "net_l2" -> "NetworkResponse"
      [] pc = "net_l3" -> "NetworkFinished"

\* enable_network: page.event_listener::<E>().await, then the listener task is spawned
NetworkListen(c) ==
    /\ cpc[c] \in {"net_l1", "net_l2", "net_l3"}
    /\ \E ok \in BOOLEAN :
        /\ ok => Answers(cconn[c])
        /\ IF ok
           THEN /\ listeners' = Append(listeners, Listener(ListenKind(cpc[c]), cconn[c]))
                /\ IF cpc[c] = "net_l1" THEN Goto(c, "net_l2")
                   ELSE IF cpc[c] = "net_l2" THEN Goto(c, "net_l3")
                   ELSE Return(c, "Ok")
           ELSE /\ Return(c, "BrowserError")
                /\ UNCHANGED listeners
    /\ NoSend
    /\ UNCHANGED engineVars
    /\ UNCHANGED <<state, browser, page, handler, transport, commands, ncalls>>

\* the websocket of connection n is closed by the other side
TransportClose(n) ==
    /\ n \in DOMAIN transport
    /\ transport[n] = "open"
    /\ transport' = [transport EXCEPT ![n] = "closed"]
    /\ NoSend
    /\ UNCHANGED engineVars
    /\ UNCHANGED <<state, browser, page, handler, cpc, cconn, cpage, cret, commands,
                   listeners, ncalls>>

\* handler task: handler.next().await returned None, the while-let loop ends
HandlerEnd(n) ==
    /\ n \in DOMAIN handler
    /\ handler[n] = "running"
    /\ transport[n] = "closed"
    /\ handler' = [handler EXCEPT ![n] = "ended"]
    /\ NoSend
    /\ UNCHANGED engineVars
    /\ UNCHANGED <<state, browser, page, transport, cpc, cconn, cpage, cret, commands,
                   listeners, ncalls>>

-----------------------------------------------------------------------------
(* SpecConn: any interleaving of CdpClient calls made by the callers *)

InitConn == Init /\ app_handle

NextConn ==
    \/ \E c \in Callers : ConnectBegin(c)
    \/ \E c \in Callers : ConnectOpened(c)
    \/ \E c \in Callers : ConnectFailed(c)
    \/ \E c \in Callers : ConnectPagesError(c)
    \/ \E c \in Callers : ConnectPages(c)
    \/ \E c \in Callers : ConnectNewPage(c)
    \/ \E c \in Callers : ConnectSetBrowser(c)
    \/ \E c \in Callers : ConnectSetPage(c)
    \/ \E c \in Callers : ConnectNoPage(c)
    \/ \E c \in Callers : ConnectSetState(c)
    \/ \E c \in Callers : ConnectReturn(c)
    \/ \E c \in Callers : DisconnectBegin(c)
    \/ \E c \in Callers : DisconnectPage(c)
    \/ \E c \in Callers : DisconnectBrowser(c)
    \/ \E c \in Callers : DisconnectState(c)
    \/ \E c \in Callers : DisconnectReturn(c)
    \/ \E c \in Callers, op \in DomainOps : DomainNotConnected(c, op)
    \/ \E c \in Callers, op \in DomainOps : DomainExecute(c, op)
    \/ \E c \in Callers : DomainReply(c)
    \/ \E c \in Callers : NetworkReply(c)
    \/ \E c \in Callers : NetworkListen(c)
    \/ \E n \in ConnIds : TransportClose(n)
    \/ \E n \in ConnIds : HandlerEnd(n)

SpecConn == InitConn /\ [][NextConn]_vars

\* the steps of caller c after its call has begun
CallerStep(c) ==
    \/ ConnectOpened(c) \/ ConnectFailed(c) \/ ConnectPagesError(c)
    \/ ConnectPages(c) \/ ConnectNewPage(c) \/ ConnectSetBrowser(c)
    \/ ConnectSetPage(c) \/ ConnectNoPage(c) \/ ConnectSetState(c)
    \/ ConnectReturn(c)
    \/ DisconnectPage(c) \/ DisconnectBrowser(c) \/ DisconnectState(c)
    \/ DisconnectReturn(c)
    \/ DomainReply(c) \/ NetworkReply(c) \/ NetworkListen(c)

\* the steps of the handler tasks
HandlerStep == \E n \in ConnIds : HandlerEnd(n)

\* SpecConn with every started call and every spawned task scheduled fairly; no
\* caller is obliged to start a call
FairConn ==
    /\ InitConn
    /\ [][NextConn]_vars
    /\ \A c \in Callers : WF_vars(CallerStep(c))
    /\ WF_vars(HandlerStep)

-----------------------------------------------------------------------------
(* Claims on CdpClient, checked under SpecConn *)

ConnectPcs == {"c_connect", "c_pages", "c_newpage", "c_setbrowser", "c_setpage",
               "c_setstate", "c_send"}
ReplyPcs == {"perf_reply", "net_reply", "get_reply"}

\* the step starts enable_performance, enable_network or get_performance_metrics
DomainCallStep ==
    /\ ncalls' = ncalls + 1
    /\ \A c \in Callers : cpc[c] = "idle" => cpc'[c] \in {"idle"} \cup ReplyPcs

\* C7: whenever ConnectionState is not Connected, enable_performance,
\* enable_network and get_performance_metrics fail with NotConnected and issue no
\* protocol command.
C7_DomainCallsNeedConnected ==
    [][ (state # "Connected" /\ DomainCallStep)
        => (/\ commands' = commands
            /\ \A c \in Callers : cpc'[c] \notin ReplyPcs
            /\ \E c \in Callers : cpc[c] = "idle" /\ cret'[c] = "NotConnected") ]_vars

\* the step returns from connect() of caller c with an error
ConnectFails(c) == cpc[c] \in ConnectPcs /\ cpc'[c] = "idle" /\ cret'[c] # "Ok"

\* C8: every failing connect() returns ConnectionFailed and leaves ConnectionState
\* equal to Disconnected when it returns.
C8_FailedConnectResets ==
    [][ \A c \in Callers :
            ConnectFails(c) => (cret'[c] = "ConnectionFailed" /\ state' = "Disconnected")
      ]_vars

\* C9: every change of ConnectionState follows an edge of the state machine
\* Disconnected -> Connecting -> Connected -> Disconnected, Connecting -> Disconnected.
C9_StateMachineEdges ==
    [][ state' # state =>
            <<state, state'>> \in { <<"Disconnected", "Connecting">>,
                                    <<"Connecting", "Connected">>,
                                    <<"Connecting", "Disconnected">>,
                                    <<"Connected", "Disconnected">> } ]_vars

\* the transport of the connection the client holds has closed and its frame pump
\* has ended while the state is Connecting or Connected
TransportLost ==
    /\ state \in {"Connecting", "Connected"}
    /\ IsSome(browser)
    /\ transport[Unwrap(browser)] = "closed"
    /\ handler[Unwrap(browser)] = "ended"

\* C10: if the transport closes unexpectedly while the state is Connecting or
\* Connected, ConnectionState eventually becomes Disconnected.
C10_ClosureDisconnects == TransportLost ~> (state = "Disconnected")

-----------------------------------------------------------------------------
(* MetricsCollector::start, stop and the two loops (cdp/metrics.rs) *)

\* the protocol events the page delivers in SpecLoop: the lifecycle of one request
LoopEvents ==
    { EvNetworkRequest("r1", "https://a/x", "GET", 0),
      EvNetworkResponse("r1", 200, 50),
      EvNetworkFinished("r1", 1024, 200),
      EvNetworkFinished("r2", 512, 200) }

\* the client variables no step of the engine touches
clientFrame == <<state, browser, page, handler, transport, cpc, cconn, cpage, cret,
                 ncalls>>

\* start(): self.client.enable_performance() finds no page and start returns the error
StartNotConnected ==
    /\ start_pc \in {"idle", "net_begin"}
    /\ ~PageCheck(page)
    /\ start_pc' = "NotConnected"
    /\ UNCHANGED <<collecting, poll_pc, corr_pc, bus_closed, ticks, nraw, after_stop>>
    /\ UNCHANGED <<ownerVars, sinkVars, rxVars, clientFrame, commands, listeners,
                   cdp_events>>

\* start(): enable_performance() / enable_network() passes the page check and
\* sends its enable command
StartExecute ==
    /\ start_pc \in {"idle", "net_begin"}
    /\ PageCheck(page)
    /\ commands' = commands + 1
    /\ start_pc' = IF start_pc = "idle" THEN "perf_reply" ELSE "net_reply"
    /\ UNCHANGED <<collecting, poll_pc, corr_pc, bus_closed, ticks, nraw, after_stop>>
    /\ UNCHANGED <<ownerVars, sinkVars, rxVars, clientFrame, listeners, cdp_events>>

\* start(): the reply of an enable command arrives; an error ends start() by `?`
StartReply ==
    /\ start_pc \in {"perf_reply", "net_reply"}
    /\ \E ok \in BOOLEAN :
        /\ ok => Answers(Unwrap(page))
        /\ start_pc' = IF ~ok THEN "BrowserError"
                       ELSE IF start_pc = "perf_reply" THEN "net_begin" ELSE "net_l1"
    /\ UNCHANGED <<collecting, poll_pc, corr_pc, bus_closed, ticks, nraw, after_stop>>
    /\ UNCHANGED <<ownerVars, sinkVars, rxVars, clientFrame, commands, listeners,
                   cdp_events>>

\* start(): enable_network() registers one event listener and spawns its task
StartListen ==
    /\ start_pc \in {"net_l1", "net_l2", "net_l3"}
    /\ \E ok \in BOOLEAN :
        /\ ok => Answers(Unwrap(page))
        /\ IF ok
           THEN /\ listeners' = Append(listeners,
                                       Listener(ListenKind(start_pc), Unwrap(page)))
                /\ start_pc' = CASE start_pc = "net_l1" -> "net_l2"
                                 [] start_pc = "net_l2" -> "net_l3"
                                 [] start_pc = "net_l3" -> "spawn"
           ELSE /\ start_pc' = "BrowserError"
                /\ UNCHANGED listeners
    /\ UNCHANGED <<collecting, poll_pc, corr_pc, bus_closed, ticks, nraw, after_stop>>
    /\ UNCHANGED <<ownerVars, sinkVars, rxVars, clientFrame, commands, cdp_events>>

\* start(): *collecting = true; spawn the poll loop; subscribe; spawn the
\* correlation loop; Ok(())
StartSpawn ==
    /\ start_pc = "spawn"
    /\ collecting' = TRUE
    /\ poll_pc' = "tick"
    /\ corr_pc' = "check"
    /\ cdp_rx' = <<>>
    /\ rx_lagged' = FALSE
    /\ start_pc' = "Ok"
    /\ UNCHANGED <<prev_rx, bus_closed, ticks, nraw, after_stop>>
    /\ UNCHANGED <<ownerVars, sinkVars, clientFrame, commands, listeners, cdp_events>>

\* stop(), called through the holder of the collector: *collecting = false
Stop ==
    /\ ~dropped
    /\ collecting' = FALSE
    /\ after_stop' = IF collecting THEN [l \in {"poll", "corr"} |-> 0] ELSE after_stop
    /\ UNCHANGED <<poll_pc, corr_pc, bus_closed, start_pc, ticks, nraw>>
    /\ UNCHANGED <<ownerVars, sinkVars, rxVars, clientFrame, commands, listeners,
                   cdp_events>>

\* poll loop: ticker.tick().await; if !*collecting.read().await { break }
PollTick ==
    /\ poll_pc = "tick"
    /\ collecting => (ticks < MaxTicks /\ ticks + nraw < MaxInputs)
    /\ poll_pc' = IF collecting THEN "fetch" ELSE "done"
    /\ ticks' = IF collecting THEN ticks + 1 ELSE ticks
    /\ UNCHANGED <<collecting, corr_pc, bus_closed, start_pc, nraw, after_stop>>
    /\ UNCHANGED <<ownerVars, sinkVars, rxVars, clientFrame, commands, listeners,
                   cdp_events>>

PollExecute_EndOnNotConnected ==
    /\ poll_pc = "fetch"
    /\ IF PageCheck(page)
       THEN commands' = commands + 1 /\ poll_pc' = "reply"
       ELSE UNCHANGED commands /\ poll_pc' = "done"
    /\ UNCHANGED <<collecting, corr_pc, bus_closed, start_pc, ticks, nraw, after_stop>>
    /\ UNCHANGED <<ownerVars, sinkVars, rxVars, clientFrame, listeners, cdp_events>>

\* poll loop: client.get_performance_metrics() checks the page; NotConnected is
\* swallowed by `if let Ok(..)`
PollExecute ==
    /\ poll_pc = "fetch"
    /\ IF PageCheck(page)
       THEN commands' = commands + 1 /\ poll_pc' = "reply"
       ELSE UNCHANGED commands /\ poll_pc' = "tick"
    /\ UNCHANGED <<collecting, corr_pc, bus_closed, start_pc, ticks, nraw, after_stop>>
    /\ UNCHANGED <<ownerVars, sinkVars, rxVars, clientFrame, listeners, cdp_events>>

PerformanceMetrics_Countdown == [timestamp |-> MaxTicks - ticks]

\* PerformanceMetrics { timestamp: Utc::now().timestamp_millis(), .. }; the wall
\* clock is read as the number of the tick
PerformanceMetrics == [timestamp |-> ticks]

\* MetricsEvent::Performance(metrics), serialized with the tag inside
PerformanceEvent(m) == [type |-> "Performance", timestamp |-> m.timestamp]

StoredMetric_Current(m) ==
    [session_id |-> IF IsSome(current_session) THEN Unwrap(current_session) ELSE "",
     timestamp |-> m.timestamp, metric_type |-> "performance", data |-> m]

\* StoredMetric::from_performance(&session_id, &metrics)
StoredMetric(m) ==
    [session_id |-> SessionId, timestamp |-> m.timestamp,
     metric_type |-> "performance", data |-> m]

PollReply_BreakOnErr ==
    /\ poll_pc = "reply"
    /\ \E ok \in BOOLEAN :
        /\ ok => Answers(Unwrap(page))
        /\ poll_pc' = IF ok THEN "publish" ELSE "done"
    /\ UNCHANGED <<collecting, corr_pc, bus_closed, start_pc, ticks, nraw, after_stop>>
    /\ UNCHANGED <<ownerVars, sinkVars, rxVars, clientFrame, commands, listeners,
                   cdp_events>>

\* poll loop: client.get_performance_metrics().await returns; an Err is swallowed
\* by `if let Ok(metrics)` and the loop goes back to its ticker
PollReply ==
    /\ poll_pc = "reply"
    /\ \E ok \in BOOLEAN :
        /\ ok => Answers(Unwrap(page))
        /\ poll_pc' = IF ok THEN "publish" ELSE "tick"
    /\ UNCHANGED <<collecting, corr_pc, bus_closed, start_pc, ticks, nraw, after_stop>>
    /\ UNCHANGED <<ownerVars, sinkVars, rxVars, clientFrame, commands, listeners,
                   cdp_events>>

PollPublish_NetworkName ==
    /\ poll_pc = "publish"
    /\ \E store_ok \in BOOLEAN :
        db_metrics' = IF store_ok
                      THEN Append(db_metrics, StoredMetric(PerformanceMetrics))
                      ELSE db_metrics
    /\ db_writes' = db_writes + 1
    /\ notified' = IF app_handle
                   THEN Append(notified, [name |-> "metrics:network",
                                          payload |-> PerformanceMetrics])
                   ELSE notified
    /\ published' = Append(published, PerformanceEvent(PerformanceMetrics))
    /\ after_stop' = [after_stop EXCEPT !["poll"] = IF collecting THEN @ ELSE @ + 1]
    /\ poll_pc' = "tick"
    /\ UNCHANGED <<collecting, corr_pc, bus_closed, start_pc, ticks, nraw>>
    /\ UNCHANGED <<ownerVars, requests, db_requests, processed, rxVars, clientFrame,
                   commands, listeners, cdp_events>>

\* poll loop, body of `if let Ok(metrics)`: the snapshot is stored (the result of
\* the write is dropped), emitted to the app handle and sent on event_tx
PollPublish ==
    /\ poll_pc = "publish"
    /\ \E store_ok \in BOOLEAN :
        db_metrics' = IF store_ok
                      THEN Append(db_metrics, StoredMetric(PerformanceMetrics))
                      ELSE db_metrics
    /\ db_writes' = db_writes + 1
    /\ notified' = IF app_handle
                   THEN Append(notified, [name |-> "metrics:performance",
                                          payload |-> PerformanceMetrics])
                   ELSE notified
    /\ published' = Append(published, PerformanceEvent(PerformanceMetrics))
    /\ after_stop' = [after_stop EXCEPT !["poll"] = IF collecting THEN @ ELSE @ + 1]
    /\ poll_pc' = "tick"
    /\ UNCHANGED <<collecting, corr_pc, bus_closed, start_pc, ticks, nraw>>
    /\ UNCHANGED <<ownerVars, requests, db_requests, processed, rxVars, clientFrame,
                   commands, listeners, cdp_events>>

\* the holder of the collector releases it (*collector = None, or a new collector
\* is stored in its place): the MetricsCollector value is dropped, the tasks that
\* start() spawned keep the clones they captured
Drop ==
    /\ ~dropped
    /\ start_pc \in {"Ok", "NotConnected", "BrowserError"}
    /\ dropped' = TRUE
    /\ UNCHANGED <<app_handle, current_session, fetched, prev_poll_pc, prev_corr_pc,
                   loopVars, sinkVars, rxVars, clientFrame, commands,
                   listeners, cdp_events>>

CorrCheck_NoBreak ==
    /\ corr_pc = "check"
    /\ corr_pc' = "recv"
    /\ UNCHANGED <<collecting, poll_pc, bus_closed, start_pc, ticks, nraw, after_stop>>
    /\ UNCHANGED <<ownerVars, sinkVars, rxVars, clientFrame, commands, listeners,
                   cdp_events>>

\* correlation loop: if !*collecting.read().await { break }
CorrCheck ==
    /\ corr_pc = "check"
    /\ corr_pc' = IF collecting THEN "recv" ELSE "done"
    /\ UNCHANGED <<collecting, poll_pc, bus_closed, start_pc, ticks, nraw, after_stop>>
    /\ UNCHANGED <<ownerVars, sinkVars, rxVars, clientFrame, commands, listeners,
                   cdp_events>>

CorrLagged_Break ==
    /\ corr_pc = "recv"
    /\ rx_lagged
    /\ rx_lagged' = FALSE
    /\ corr_pc' = "done"
    /\ UNCHANGED <<collecting, poll_pc, bus_closed, start_pc, ticks, nraw, after_stop>>
    /\ UNCHANGED <<ownerVars, sinkVars, cdp_rx, prev_rx, clientFrame, commands, listeners,
                   cdp_events>>

\* correlation loop: cdp_rx.recv().await returns Err(Lagged(_)) => continue
CorrLagged ==
    /\ corr_pc = "recv"
    /\ rx_lagged
    /\ rx_lagged' = FALSE
    /\ corr_pc' = "check"
    /\ UNCHANGED <<collecting, poll_pc, bus_closed, start_pc, ticks, nraw, after_stop>>
    /\ UNCHANGED <<ownerVars, sinkVars, cdp_rx, prev_rx, clientFrame, commands, listeners,
                   cdp_events>>

\* correlation loop: cdp_rx.recv().await returns Ok(event), which is processed
CorrEvent ==
    /\ corr_pc = "recv"
    /\ ~rx_lagged
    /\ cdp_rx # <<>>
    /\ \E store_ok \in StoreOutcomes(Head(cdp_rx)) :
            ProcessCdpEvent(Head(cdp_rx), store_ok)
    /\ cdp_rx' = Tail(cdp_rx)
    /\ corr_pc' = "check"
    /\ after_stop' = [after_stop EXCEPT
                        !["corr"] = IF /\ ~collecting
                                       /\ \/ published' # published
                                          \/ notified' # notified
                                          \/ db_writes' # db_writes
                                    THEN @ + 1 ELSE @]
    /\ UNCHANGED <<collecting, poll_pc, bus_closed, start_pc, ticks, nraw>>
    /\ UNCHANGED <<ownerVars, rx_lagged, prev_rx, clientFrame, commands, listeners, cdp_events>>

\* correlation loop: cdp_rx.recv().await returns Err(Closed) => break
CorrClosed ==
    /\ corr_pc = "recv"
    /\ ~rx_lagged
    /\ cdp_rx = <<>>
    /\ bus_closed
    /\ corr_pc' = "done"
    /\ UNCHANGED <<collecting, poll_pc, bus_closed, start_pc, ticks, nraw, after_stop>>
    /\ UNCHANGED <<ownerVars, sinkVars, rxVars, clientFrame, commands, listeners,
                   cdp_events>>

\* the page delivers protocol event e: it enters the stream of every live
\* listener of its kind on that connection
PageEvent(e) ==
    /\ nraw < MaxRaw
    /\ ticks + nraw < MaxInputs
    /\ \E i \in DOMAIN listeners :
        listeners[i].live /\ listeners[i].kind = e.type /\ Answers(listeners[i].conn)
    /\ nraw' = nraw + 1
    /\ listeners' = [i \in DOMAIN listeners |->
                        IF /\ listeners[i].live
                           /\ listeners[i].kind = e.type
                           /\ Answers(listeners[i].conn)
                        THEN [listeners[i] EXCEPT !.queue = Append(@, e)]
                        ELSE listeners[i]]
    /\ UNCHANGED <<collecting, poll_pc, corr_pc, bus_closed, start_pc, ticks,
                   after_stop>>
    /\ UNCHANGED <<ownerVars, sinkVars, rxVars, clientFrame, commands, cdp_events>>

\* listener task i: while let Some(event) = events.next().await { tx.send(..) }
ListenerForward(i) ==
    /\ i \in DOMAIN listeners
    /\ listeners[i].live
    /\ listeners[i].queue # <<>>
    /\ BusSend(Head(listeners[i].queue))
    /\ listeners' = [listeners EXCEPT ![i].queue = Tail(@)]
    /\ UNCHANGED <<ownerVars, loopVars, sinkVars, clientFrame, commands>>

\* the connection is lost and the application releases the client: the handler
\* ends, every listener stream ends and with the listener tasks the last Sender of
\* the CdpClient bus is dropped. The poll loop holds the client while it runs.
BusClose ==
    /\ ~bus_closed
    /\ poll_pc \in {"none", "done"}
    /\ start_pc \in {"idle", "Ok", "NotConnected", "BrowserError"}
    /\ \A c \in Callers : cpc[c] = "idle"
    /\ \A i \in DOMAIN listeners : listeners[i].queue = <<>>
    /\ bus_closed' = TRUE
    /\ transport' = [n \in DOMAIN transport |-> "closed"]
    /\ handler' = [n \in DOMAIN handler |-> "ended"]
    /\ listeners' = [i \in DOMAIN listeners |-> [listeners[i] EXCEPT !.live = FALSE]]
    /\ UNCHANGED <<collecting, poll_pc, corr_pc, start_pc, ticks, nraw, after_stop>>
    /\ UNCHANGED <<ownerVars, sinkVars, rxVars, commands, cdp_events>>
    /\ UNCHANGED <<state, browser, page, cpc, cconn, cpage, cret, ncalls>>

-----------------------------------------------------------------------------
(* SpecLoop: one MetricsCollector on a connected client *)

ListenerIds == 1..3     \* enable_network() spawns three listener tasks

\* MetricsCollector::new on a client that was never connected, or on one whose
\* one connect() call has returned Ok
InitLoop ==
    /\ \E connected \in BOOLEAN :
        /\ state = IF connected THEN "Connected" ELSE "Disconnected"
        /\ browser = IF connected THEN Some(1) ELSE None
        /\ page = IF connected THEN Some(1) ELSE None
        /\ handler = IF connected THEN <<"running">> ELSE <<>>
        /\ transport = IF connected THEN <<"open">> ELSE <<>>
        /\ cret = [c \in Callers |-> IF connected /\ c = 1 THEN "Ok" ELSE "none"]
        /\ cdp_events = IF connected THEN <<EvConnected>> ELSE <<>>
        /\ ncalls = IF connected THEN 1 ELSE 0
    /\ cpc = [c \in Callers |-> "idle"]
    /\ cconn = [c \in Callers |-> 0]
    /\ cpage = [c \in Callers |-> None]
    /\ commands = 0
    /\ listeners = <<>>
    /\ app_handle = TRUE
    /\ dropped = FALSE
    /\ current_session = Some(SessionId)
    /\ fetched = None
    /\ prev_poll_pc = "none"
    /\ prev_corr_pc = "none"
    /\ prev_rx = <<>>
    /\ collecting = FALSE
    /\ requests = <<>>
    /\ poll_pc = "none"
    /\ corr_pc = "none"
    /\ cdp_rx = <<>>
    /\ rx_lagged = FALSE
    /\ bus_closed = FALSE
    /\ start_pc = "idle"
    /\ ticks = 0
    /\ nraw = 0
    /\ published = <<>>
    /\ notified = <<>>
    /\ db_requests = <<>>
    /\ db_metrics = <<>>
    /\ db_writes = 0
    /\ processed = <<>>
    /\ after_stop = [l \in {"poll", "corr"} |-> 0]

NextLoop ==
    \/ StartNotConnected
    \/ StartExecute
    \/ StartReply
    \/ StartListen
    \/ StartSpawn
    \/ Stop
    \/ Drop
    \/ PollTick
    \/ PollExecute
    \/ PollReply
    \/ PollPublish
    \/ CorrCheck
    \/ CorrLagged
    \/ CorrEvent
    \/ CorrClosed
    \/ \E e \in LoopEvents : PageEvent(e)
    \/ \E i \in ListenerIds : ListenerForward(i)
    \/ BusClose

SpecLoop == InitLoop /\ [][NextLoop]_vars

\* SpecLoop with start() and every spawned task scheduled fairly: timers fire,
\* replies arrive and a task that can take a step eventually takes it; the page is
\* not obliged to deliver events and nobody is obliged to call stop or disconnect
FairLoop ==
    /\ InitLoop
    /\ [][NextLoop]_vars
    /\ WF_vars(StartNotConnected \/ StartExecute \/ StartReply \/ StartListen
               \/ StartSpawn)
    /\ WF_vars(PollTick \/ PollExecute \/ PollReply \/ PollPublish)
    /\ WF_vars(CorrCheck \/ CorrLagged \/ CorrEvent \/ CorrClosed)
    /\ \A i \in ListenerIds : WF_vars(ListenerForward(i))

-----------------------------------------------------------------------------
(* Claims about start() and stop() *)

\* the network events the listener tasks have put on the CdpClient bus
BusNetworkEvents == SelectSeq(cdp_events, LAMBDA e : IsNetwork(e))

\* C5: once stop() has cleared the flag, each loop produces output (a telemetry
\* event, a notification, a storage write) in at most one more iteration, the one
\* that was in flight; a loop that has ended has left everything arriving later
\* untouched.
C5_AtMostInFlightIteration ==
    /\ after_stop["poll"] <= 1
    /\ after_stop["corr"] <= 1
    /\ (start_pc = "Ok" /\ poll_pc = "done" /\ corr_pc = "done")
          => /\ Len(processed) <= Len(BusNetworkEvents)
             /\ Len(published) <= Len(processed) + ticks
             /\ db_writes <= Len(processed) + ticks

\* stop() came while both loops had an iteration in flight: each published once
\* more and ended, and an event put on the bus afterwards was never processed
C5_Witness ==
    /\ start_pc = "Ok"
    /\ ~collecting
    /\ poll_pc = "done"
    /\ corr_pc = "done"
    /\ after_stop["poll"] = 1
    /\ after_stop["corr"] = 1
    /\ Len(BusNetworkEvents) > Len(processed)

\* C6: once stop() has cleared the flag of a started engine, the poll loop and the
\* correlation loop both eventually terminate, whether or not another event
\* arrives on the bus or the bus closes.
C6_StopEndsBothLoops ==
    (start_pc = "Ok" /\ ~collecting) ~> (poll_pc = "done" /\ corr_pc = "done")

-----------------------------------------------------------------------------
(* Claims about the events of connect() and disconnect() *)

\* how many times event e is in the log
Count(log, e) == Cardinality({i \in DOMAIN log : log[i] = e})

\* the step returns from connect() of caller c with Ok
ConnectSucceeds(c) == cpc[c] \in ConnectPcs /\ cpc'[c] = "idle" /\ cret'[c] = "Ok"

\* C11: a connect() that returns success has set ConnectionState to Connected and
\* then broadcast exactly one Connected event; a connect() that fails broadcasts
\* none: Connected events and successful returns correspond one to one.
C11_ConnectedBroadcastOnce ==
    [][ /\ \A c \in Callers :
            ConnectSucceeds(c) => /\ cpc[c] = "c_send"
                                  /\ cdp_events' = Append(cdp_events, EvConnected)
        /\ \A c \in Callers :
            (cpc[c] # "c_send" /\ cpc'[c] = "c_send") => state' = "Connected"
        /\ \A c \in Callers : ConnectFails(c) => cdp_events' = cdp_events
        /\ Count(cdp_events', EvConnected) # Count(cdp_events, EvConnected)
              => \E c \in Callers : ConnectSucceeds(c) ]_vars

\* one connect() has failed and another has succeeded: one Connected event
C11_Witness ==
    /\ \E c \in Callers : cret[c] = "ConnectionFailed" /\ cpc[c] = "idle"
    /\ \E c \in Callers : cret[c] = "Ok" /\ cpc[c] = "idle" /\ state = "Connected"
    /\ Count(cdp_events, EvConnected) = 1
    /\ Len(transport) = 1

\* caller c is the only one that has ever called, and no transport was ever opened:
\* ConnectionState has been Disconnected whenever c was between calls
OnlyCallerNeverConnected(c) ==
    /\ transport = <<>>
    /\ \A d \in Callers \ {c} : cpc[d] = "idle" /\ cret[d] = "none"

\* C12: disconnect() called when the state is already Disconnected returns success
\* and is a no-op: state and handles are unchanged and no event is broadcast.
C12_DisconnectIdempotent ==
    [][ \A c \in Callers :
          (/\ OnlyCallerNeverConnected(c)
           /\ cpc[c] \in {"d_page", "d_browser", "d_state", "d_send"}
           /\ cpc'[c] # cpc[c])
          => /\ state' = "Disconnected" /\ page' = None /\ browser' = None
             /\ cdp_events' = cdp_events
             /\ cpc'[c] = "idle" => cret'[c] = "Ok" ]_vars

-----------------------------------------------------------------------------
(* SpecSerial: SpecConn with connect() never overlapping a disconnect() *)

DisconnectPcs == {"d_page", "d_browser", "d_state", "d_send"}

\* connect() is called while no disconnect() is running
SerialConnectBegin(c) ==
    /\ \A d \in Callers : cpc[d] \notin DisconnectPcs
    /\ ConnectBegin(c)

\* disconnect() is called while no connect() is running
SerialDisconnectBegin(c) ==
    /\ \A d \in Callers : cpc[d] \notin ConnectPcs
    /\ DisconnectBegin(c)

NextSerial ==
    \/ \E c \in Callers : SerialConnectBegin(c)
    \/ \E c \in Callers : ConnectOpened(c)
    \/ \E c \in Callers : ConnectFailed(c)
    \/ \E c \in Callers : ConnectPagesError(c)
    \/ \E c \in Callers : ConnectPages(c)
    \/ \E c \in Callers : ConnectNewPage(c)
    \/ \E c \in Callers : ConnectSetBrowser(c)
    \/ \E c \in Callers : ConnectSetPage(c)
    \/ \E c \in Callers : ConnectNoPage(c)
    \/ \E c \in Callers : ConnectSetState(c)
    \/ \E c \in Callers : ConnectReturn(c)
    \/ \E c \in Callers : SerialDisconnectBegin(c)
    \/ \E c \in Callers : DisconnectPage(c)
    \/ \E c \in Callers : DisconnectBrowser(c)
    \/ \E c \in Callers : DisconnectState(c)
    \/ \E c \in Callers : DisconnectReturn(c)
    \/ \E c \in Callers, op \in DomainOps : DomainNotConnected(c, op)
    \/ \E c \in Callers, op \in DomainOps : DomainExecute(c, op)
    \/ \E c \in Callers : DomainReply(c)
    \/ \E c \in Callers : NetworkReply(c)
    \/ \E c \in Callers : NetworkListen(c)
    \/ \E n \in ConnIds : TransportClose(n)
    \/ \E n \in ConnIds : HandlerEnd(n)

SpecSerial == InitConn /\ [][NextSerial]_vars

\* C13: when disconnect() returns with no connect() running concurrently, the page
\* handle and the transport handle are absent and the state is Disconnected, and
\* the Disconnected event is broadcast only once the state is already Disconnected.
C13_DisconnectReleases ==
    [][ \A c \in Callers :
          (cpc[c] = "d_send" /\ cpc'[c] = "idle")
          => /\ state = "Disconnected"
             /\ cdp_events' = Append(cdp_events, EvDisconnected)
             /\ state' = "Disconnected"
             /\ page' = None
             /\ browser' = None
             /\ cret'[c] = "Ok" ]_vars

\* disconnect() has returned on a client that was Connected
C13_Witness ==
    /\ cdp_events = <<EvConnected, EvDisconnected>>
    /\ \A c \in Callers : cpc[c] = "idle"
    /\ state = "Disconnected"
    /\ page = None
    /\ browser = None

-----------------------------------------------------------------------------
(* Claims about failures inside start() and the loops *)

\* start() has returned an error
StartFailed == start_pc \in {"NotConnected", "BrowserError"}

\* C14: if enable_performance() or enable_network() fails inside start(), start()
\* returns that error, the collecting flag stays false, neither loop is spawned and
\* no task spawned during the failed start() remains running.
C14_FailedStartLeavesNothing ==
    StartFailed => /\ ~collecting
                   /\ poll_pc = "none"
                   /\ corr_pc = "none"
                   /\ \A i \in DOMAIN listeners : ~listeners[i].live

\* the step is the poll loop's fetch failing: NotConnected from the page check or
\* an error reply
FetchFails ==
    \/ poll_pc = "fetch" /\ poll_pc' # "reply" /\ poll_pc' # "fetch"
    \/ poll_pc = "reply" /\ poll_pc' # "publish" /\ poll_pc' # "reply"

\* the Performance events published so far
PerformancePublished == SelectSeq(published, LAMBDA ev : ev.type = "Performance")

\* C15: a failed get_performance_metrics() on a poll tick produces no Performance
\* event, no notification and no storage write and does not end the poll loop: the
\* loop returns to its ticker, ends only on a tick that finds the flag cleared, and
\* every later successful fetch publishes its snapshot.
C15_FetchFailureSwallowed ==
    [][ /\ FetchFails => /\ poll_pc' = "tick"
                         /\ UNCHANGED <<published, notified, db_writes, db_metrics,
                                        db_requests>>
        /\ (poll_pc # "done" /\ poll_pc' = "done") => (poll_pc = "tick" /\ ~collecting)
        /\ (poll_pc = "publish" /\ poll_pc' # "publish")
              => /\ published' = Append(published, PerformanceEvent(PerformanceMetrics))
                 /\ poll_pc' = "tick" ]_vars

\* the first tick's fetch failed and the second tick's fetch succeeded and was
\* published
C15_Witness ==
    /\ collecting
    /\ poll_pc = "tick"
    /\ ticks = 2
    /\ PerformancePublished = <<[type |-> "Performance", timestamp |-> 2]>>
    /\ commands >= 4

\* C16: telemetry delivery does not depend on storage: every tick with a successful
\* fetch and every processed request-sent or matched load-finished event publishes
\* its telemetry event, updates the correlation table and lets the loop go on,
\* whether the storage write of that step succeeds or fails.
C16_DeliveryIgnoresStorage ==
    [][ /\ (poll_pc = "publish" /\ poll_pc' # "publish")
              => /\ Len(published') = Len(published) + 1
                 /\ published'[Len(published')].type = "Performance"
                 /\ db_writes' = db_writes + 1
                 /\ poll_pc' = "tick"
        /\ (ProcessedOne /\ LastProcessed.type = "NetworkRequest")
              => /\ published' = Append(published,
                        [type |-> "NetworkRequest",
                         request_id |-> LastProcessed.request_id,
                         url |-> LastProcessed.url,
                         method |-> LastProcessed.method,
                         timestamp |-> LastProcessed.timestamp])
                 /\ db_writes' = db_writes + 1
                 /\ LastProcessed.request_id \in DOMAIN requests'
                 /\ requests'[LastProcessed.request_id].request_timestamp
                        = LastProcessed.timestamp
                 /\ corr_pc' = "check"
        /\ (/\ ProcessedOne
            /\ LastProcessed.type = "NetworkFinished"
            /\ LastProcessed.request_id \in DOMAIN requests)
              => /\ Len(published') = Len(published) + 1
                 /\ published'[Len(published')].type = "NetworkComplete"
                 /\ published'[Len(published')].request_id = LastProcessed.request_id
                 /\ db_writes' = db_writes + 1
                 /\ LastProcessed.request_id \notin DOMAIN requests'
                 /\ corr_pc' = "check" ]_vars

\* a snapshot, a request-sent and its load-finished were each published although
\* every one of the three storage writes failed
C16_Witness ==
    /\ db_writes = 3
    /\ db_metrics = <<>>
    /\ db_requests = <<>>
    /\ Len(PerformancePublished) = 1
    /\ NumCompletes(published) = 1
    /\ Len(published) = 3
    /\ requests = <<>>
    /\ corr_pc = "check"
    /\ poll_pc = "tick"

-----------------------------------------------------------------------------
(* Claims about the correlation table and the two buses *)

\* C17: the correlation table holds at most one entry per request_id, filed under
\* its own id; an entry appears only in a step that processes a request-sent event
\* of that id and disappears only in a step that processes a load-finished event of
\* that id, so it stays through responses, events of other ids, lagged receives
\* and stop().
C17_TableEntryLifetime ==
    /\ [](\A id \in DOMAIN requests : requests[id].request_id = id)
    /\ [][ \A id \in RequestIds :
            /\ (id \notin DOMAIN requests /\ id \in DOMAIN requests')
                  => /\ ProcessedOne
                     /\ LastProcessed.type = "NetworkRequest"
                     /\ LastProcessed.request_id = id
            /\ (id \in DOMAIN requests /\ id \notin DOMAIN requests')
                  => /\ ProcessedOne
                     /\ LastProcessed.type = "NetworkFinished"
                     /\ LastProcessed.request_id = id
            /\ (id \in DOMAIN requests /\ id \in DOMAIN requests'
                    /\ requests'[id].request_timestamp # requests[id].request_timestamp)
                  => /\ ProcessedOne
                     /\ LastProcessed.type = "NetworkRequest"
                     /\ LastProcessed.request_id = id ]_vars

\* the entry of r1 is in the table, stop() has been called and the receiver of
\* the correlation loop, parked in recv(), has been overrun by two later events
C17_Witness ==
    /\ start_pc = "Ok"
    /\ ~collecting
    /\ corr_pc = "recv"
    /\ rx_lagged
    /\ "r1" \in DOMAIN requests
    /\ Len(processed) = 1
    /\ Len(BusNetworkEvents) = 3

\* C18: a send on either bus completes whatever the position of the subscribers;
\* a correlation loop whose receiver was overrun skips the lost events, keeps the
\* retained ones and goes on to its next iteration; of the outcomes of recv() only
\* the closed channel ends the loop.
C18_LagToleratedNotFatal ==
    /\ [](\A i \in DOMAIN listeners :
            (listeners[i].live /\ listeners[i].queue # <<>>)
                => ENABLED ListenerForward(i))
    /\ [](poll_pc = "publish" => ENABLED PollPublish)
    /\ [][ (corr_pc = "recv" /\ rx_lagged /\ corr_pc' # corr_pc)
              => /\ corr_pc' = "check"
                 /\ ~rx_lagged'
                 /\ UNCHANGED <<cdp_rx, requests, published, processed>> ]_vars
    /\ [][ (corr_pc = "recv" /\ corr_pc' = "done")
              => (bus_closed /\ cdp_rx = <<>> /\ ~rx_lagged) ]_vars

\* the loop processed the first event, lost the second to a lag and went on to
\* process the third
C18_Witness ==
    /\ collecting
    /\ corr_pc = "check"
    /\ ~rx_lagged
    /\ Len(BusNetworkEvents) = 3
    /\ BusNetworkEvents[1].type = "NetworkRequest"
    /\ BusNetworkEvents[2].type = "NetworkResponse"
    /\ BusNetworkEvents[3].type = "NetworkFinished"
    /\ processed = <<BusNetworkEvents[1], BusNetworkEvents[3]>>

\* every Sender of the telemetry bus is gone: the one in the MetricsCollector and
\* the clones captured by the poll loop and the correlation loop
TelemetryClosed ==
    /\ dropped
    /\ poll_pc \in {"none", "done"}
    /\ corr_pc \in {"none", "done"}

\* C19: once the owning engine is dropped the telemetry bus is torn down, so that
\* every receiver obtained from subscribe() eventually observes it as closed.
C19_DropClosesTelemetryBus == dropped ~> TelemetryClosed

-----------------------------------------------------------------------------
(* Claims about notifications *)

\* the data a published event carries: the PerformanceMetrics inside the
\* Performance variant, the event itself for the network variants
Content(ev) ==
    IF ev.type = "Performance" THEN [timestamp |-> ev.timestamp] ELSE ev

\* the name under which the event is emitted to the app handle
NotificationName(ev) ==
    IF ev.type = "Performance" THEN "metrics:performance" ELSE "metrics:network"

\* C20: with an app handle configured, every event published on the telemetry bus
\* has exactly one notification, emitted in the same step under the name of its
\* kind and carrying the same data, and there is no notification without a
\* published event.
C20_OneNotificationPerEvent ==
    app_handle =>
        /\ Len(notified) = Len(published)
        /\ \A k \in DOMAIN published :
            /\ notified[k].name = NotificationName(published[k])
            /\ notified[k].payload = Content(published[k])

\* a snapshot, a request-sent and a completion have each been published and
\* notified
C20_Witness ==
    /\ app_handle
    /\ Len(published) = 3
    /\ Len(notified) = 3
    /\ Len(PerformancePublished) = 1
    /\ NumCompletes(published) = 1

-----------------------------------------------------------------------------
(* SpecSession: the collector of SpecLoop while sessions are created and ended *)

NewSessionId == "s2"

\* create_session: a new session is stored and becomes the current one
CreateSession ==
    /\ current_session # Some(NewSessionId)
    /\ current_session' = Some(NewSessionId)
    /\ UNCHANGED <<app_handle, dropped, fetched, prev_poll_pc, prev_corr_pc, loopVars, sinkVars,
                   rxVars, connVars>>

\* end_session / delete_session of the current session: the current id is cleared
EndSession ==
    /\ IsSome(current_session)
    /\ current_session' = None
    /\ UNCHANGED <<app_handle, dropped, fetched, prev_poll_pc, prev_corr_pc, loopVars, sinkVars,
                   rxVars, connVars>>

NextSession ==
    \/ StartNotConnected
    \/ StartExecute
    \/ StartReply
    \/ StartListen
    \/ StartSpawn
    \/ Stop
    \/ PollTick
    \/ PollExecute
    \/ PollReply
    \/ PollPublish
    \/ CorrCheck
    \/ CorrLagged
    \/ CorrEvent
    \/ \E e \in LoopEvents : PageEvent(e)
    \/ \E i \in ListenerIds : ListenerForward(i)
    \/ CreateSession
    \/ EndSession

SpecSession == InitLoop /\ [][NextSession]_vars

\* C21: every metric record and network-request record the engine persists carries
\* the session id the engine was created with, whatever the current session id has
\* become since.
C21_RecordsKeepEngineSession ==
    /\ \A k \in DOMAIN db_metrics : db_metrics[k].session_id = SessionId
    /\ \A id \in DOMAIN db_requests : db_requests[id].session_id = SessionId

\* the current session is no longer the engine's, and the engine has stored two
\* snapshots and the record of a request under its own session id
C21_Witness ==
    /\ current_session = Some(NewSessionId)
    /\ Len(db_metrics) = 2
    /\ "r1" \in DOMAIN db_requests

-----------------------------------------------------------------------------
(* SpecRestart: start() called again on a collector that was started and stopped *)

RestartListenerIds == 1..6     \* two calls of enable_network() spawn six listener tasks

\* the variables of the collector that the loops of an earlier start() leave alone
restartFrame == <<app_handle, dropped, current_session, fetched, collecting, poll_pc, corr_pc,
                  bus_closed, start_pc, nraw, cdp_rx, rx_lagged, clientFrame,
                  listeners, cdp_events>>

\* start() is called a second time, after stop(): nothing in start() looks at the
\* tasks the first call spawned, whose JoinHandles were dropped; they run on
StartAgain ==
    /\ ~dropped
    /\ start_pc = "Ok"
    /\ ~collecting
    /\ prev_poll_pc = "none" /\ prev_corr_pc = "none"
    /\ prev_poll_pc' = poll_pc
    /\ prev_corr_pc' = corr_pc
    /\ prev_rx' = IF rx_lagged THEN <<Lagged>> \o cdp_rx ELSE cdp_rx
    /\ poll_pc' = "none"
    /\ corr_pc' = "none"
    /\ cdp_rx' = <<>>
    /\ rx_lagged' = FALSE
    /\ start_pc' = "idle"
    /\ UNCHANGED <<app_handle, dropped, current_session, fetched, collecting, bus_closed, ticks,
                   nraw, after_stop, sinkVars, clientFrame, commands, listeners,
                   cdp_events>>

\* the earlier poll loop: ticker.tick().await; if !*collecting.read().await { break }
PrevPollTick ==
    /\ prev_poll_pc = "tick"
    /\ collecting => (ticks < MaxTicks /\ ticks + nraw < MaxInputs)
    /\ prev_poll_pc' = IF collecting THEN "fetch" ELSE "done"
    /\ ticks' = IF collecting THEN ticks + 1 ELSE ticks
    /\ UNCHANGED <<prev_corr_pc, prev_rx, after_stop, sinkVars, commands, restartFrame>>

\* the earlier poll loop: client.get_performance_metrics() checks the page
PrevPollExecute ==
    /\ prev_poll_pc = "fetch"
    /\ IF PageCheck(page)
       THEN commands' = commands + 1 /\ prev_poll_pc' = "reply"
       ELSE UNCHANGED commands /\ prev_poll_pc' = "tick"
    /\ UNCHANGED <<prev_corr_pc, prev_rx, ticks, after_stop, sinkVars, restartFrame>>

\* the earlier poll loop: the fetch returns; an Err is swallowed
PrevPollReply ==
    /\ prev_poll_pc = "reply"
    /\ \E ok \in BOOLEAN :
        /\ ok => Answers(Unwrap(page))
        /\ prev_poll_pc' = IF ok THEN "publish" ELSE "tick"
    /\ UNCHANGED <<prev_corr_pc, prev_rx, ticks, after_stop, sinkVars, commands,
                   restartFrame>>

\* the earlier poll loop: the snapshot is stored, emitted and sent on event_tx
PrevPollPublish ==
    /\ prev_poll_pc = "publish"
    /\ \E store_ok \in BOOLEAN :
        db_metrics' = IF store_ok
                      THEN Append(db_metrics, StoredMetric(PerformanceMetrics))
                      ELSE db_metrics
    /\ db_writes' = db_writes + 1
    /\ notified' = IF app_handle
                   THEN Append(notified, [name |-> "metrics:performance",
                                          payload |-> PerformanceMetrics])
                   ELSE notified
    /\ published' = Append(published, PerformanceEvent(PerformanceMetrics))
    /\ prev_poll_pc' = "tick"
    /\ UNCHANGED <<prev_corr_pc, prev_rx, ticks, after_stop, requests, db_requests,
                   processed, commands, restartFrame>>

\* the earlier correlation loop: if !*collecting.read().await { break }
PrevCorrCheck ==
    /\ prev_corr_pc = "check"
    /\ prev_corr_pc' = IF collecting THEN "recv" ELSE "done"
    /\ UNCHANGED <<prev_poll_pc, prev_rx, ticks, after_stop, sinkVars, commands,
                   restartFrame>>

\* the earlier correlation loop: cdp_rx.recv().await returns Err(Lagged(_)), and
\* the loop continues, or Ok(event), which is processed on the shared table
PrevCorrRecv ==
    /\ prev_corr_pc = "recv"
    /\ prev_rx # <<>>
    /\ IF Head(prev_rx) = Lagged
       THEN UNCHANGED sinkVars
       ELSE \E store_ok \in StoreOutcomes(Head(prev_rx)) :
                ProcessCdpEvent(Head(prev_rx), store_ok)
    /\ prev_rx' = Tail(prev_rx)
    /\ prev_corr_pc' = "check"
    /\ UNCHANGED <<prev_poll_pc, ticks, after_stop, commands, restartFrame>>

\* the protocol events the page delivers in SpecRestart and SpecDetach: requests
\* being sent
RequestSentEvents == { e \in LoopEvents : e.type = "NetworkRequest" }

NextRestart ==
    \/ StartNotConnected
    \/ StartExecute
    \/ StartReply
    \/ StartListen
    \/ StartSpawn
    \/ Stop
    \/ StartAgain
    \/ PollTick
    \/ PollExecute
    \/ PollReply
    \/ PollPublish
    \/ CorrCheck
    \/ CorrLagged
    \/ CorrEvent
    \/ PrevPollTick
    \/ PrevPollExecute
    \/ PrevPollReply
    \/ PrevPollPublish
    \/ PrevCorrCheck
    \/ PrevCorrRecv
    \/ \E e \in RequestSentEvents : PageEvent(e)
    \/ \E i \in RestartListenerIds : ListenerForward(i)

SpecRestart == InitLoop /\ [][NextRestart]_vars

PollLive(pc) == pc \in {"tick", "fetch", "reply", "publish"}

CorrLive(pc) == pc \in {"check", "recv"}

\* C22: over any sequence of start() and stop() calls on one engine, never are two
\* correlation loops spawned by it live at once, and never two poll loops.
C22_OneLoopOfEachKind ==
    /\ ~(CorrLive(corr_pc) /\ CorrLive(prev_corr_pc))
    /\ ~(PollLive(poll_pc) /\ PollLive(prev_poll_pc))

-----------------------------------------------------------------------------
(* SpecOrdered: the transport delivers the lifecycle of one request in order *)

\* what the transport delivers, in this order
Lifecycle ==
    << EvNetworkRequest("r1", "https://a/x", "GET", 0),
       EvNetworkResponse("r1", 200, 50),
       EvNetworkFinished("r1", 1024, 200) >>

\* the handler hands the next event of the lifecycle to the listener of its kind
DeliverNext ==
    /\ nraw < Len(Lifecycle)
    /\ PageEvent(Lifecycle[nraw + 1])

NextOrdered ==
    \/ StartNotConnected
    \/ StartExecute
    \/ StartReply
    \/ StartListen
    \/ StartSpawn
    \/ Stop
    \/ CorrCheck
    \/ CorrLagged
    \/ CorrEvent
    \/ DeliverNext
    \/ \E i \in ListenerIds : ListenerForward(i)

SpecOrdered == InitLoop /\ [][NextOrdered]_vars

\* the place of an event in the lifecycle, 0 for any other event
Rank(e) ==
    IF \E k \in DOMAIN Lifecycle : Lifecycle[k] = e
    THEN CHOOSE k \in DOMAIN Lifecycle : Lifecycle[k] = e
    ELSE 0

\* the events of seq that belong to the lifecycle appear in the lifecycle's order
InLifecycleOrder(seq) ==
    \A i, j \in DOMAIN seq :
        (i < j /\ Rank(seq[i]) > 0 /\ Rank(seq[j]) > 0) => Rank(seq[i]) < Rank(seq[j])

\* C23: when the transport delivers request-sent, response-received and
\* load-finished of one request in that order, they appear on the CdpClient bus in
\* that order and the correlation loop processes them in that order.
C23_LifecycleOrderKept ==
    /\ InLifecycleOrder(cdp_events)
    /\ InLifecycleOrder(processed)

-----------------------------------------------------------------------------
(* SpecSteady: the poll loop while every fetch succeeds and nobody calls stop() *)

\* the fetch of this tick returns Ok(metrics)
PollReplyOk == PollReply /\ poll_pc' = "publish"

NextSteady ==
    \/ StartNotConnected
    \/ StartExecute
    \/ StartReply
    \/ StartListen
    \/ StartSpawn
    \/ PollTick
    \/ PollExecute
    \/ PollReplyOk
    \/ PollPublish
    \/ CorrCheck
    \/ CorrLagged
    \/ CorrEvent
    \/ \E e \in LoopEvents : PageEvent(e)
    \/ \E i \in ListenerIds : ListenerForward(i)

SpecSteady == InitLoop /\ [][NextSteady]_vars

\* the poll loop is between a tick and the publication of that tick's snapshot
PollInFlight == poll_pc \in {"fetch", "reply", "publish"}

-----------------------------------------------------------------------------
(* SpecStored: process_cdp_event while every storage write succeeds *)

CorrProcessStored ==
    /\ Len(processed) < MaxProcessed
    /\ \E e \in NetworkEvents \cup {EvConnected, EvDisconnected} :
          ProcessCdpEvent(e, TRUE)
    /\ UNCHANGED <<connVars, loopVars, rxVars, ownerVars>>

NextStored == CorrProcessStored

SpecStored == Init /\ [][NextStored]_vars

\* index of the latest request-sent or load-finished of x processed so far (0: none)
Latest(x) == Prior(Len(processed) + 1, x)

\* C25: storing is an upsert by request id: once the initial record of a request
\* and then its final record have been stored, storage holds one record for the id,
\* and it carries the final status, duration and byte size.
C25_FinalRecordReplacesInitial ==
    /\ DOMAIN db_requests =
          {x \in RequestIds : \E k \in 1..Len(processed) : IsRequest(processed[k], x)}
    /\ \A x \in RequestIds :
        Latest(x) \in Pairs(x) =>
            LET j == Latest(x)
                i == Prior(j, x)
                row == db_requests[x]
            IN  /\ row.id = x
                /\ row.status_code = StampedStatus(i, j, x)
                /\ row.duration_ms =
                      Some(Times1000(processed[j].timestamp - processed[i].timestamp))
                /\ row.size_bytes = Some(processed[j].encoded_data_length)
                /\ row.response_time = Some(Times1000(processed[j].timestamp))

\* request, response and load-finished of r1 were processed and stored
C25_Witness ==
    /\ Len(processed) = 3
    /\ Pairs("r1") = {3}
    /\ IsResponse(processed[2], "r1")
    /\ DOMAIN db_requests = {"r1"}
    /\ db_requests["r1"].status_code = Some(processed[2].status)
    /\ db_requests["r1"].size_bytes = Some(processed[3].encoded_data_length)

-----------------------------------------------------------------------------
(* Further claims on process_cdp_event, checked under SpecCorr *)

\* C26: a response-received event whose id has a pending entry stamps
\* response_timestamp and status on that entry and keeps it (and every other entry)
\* in the table, publishes NetworkResponse with duration_ms = (response timestamp -
\* request timestamp) * 1000, and writes nothing to storage.
C26_ResponseStampsEntry ==
    [][ (/\ ProcessedOne
         /\ LastProcessed.type = "NetworkResponse"
         /\ LastProcessed.request_id \in DOMAIN requests)
        => (/\ requests' =
                  [requests EXCEPT ![LastProcessed.request_id] =
                      [@ EXCEPT !.response_timestamp = Some(LastProcessed.timestamp),
                                !.status = Some(LastProcessed.status)]]
            /\ published' = Append(published,
                    [type |-> "NetworkResponse",
                     request_id |-> LastProcessed.request_id,
                     status |-> LastProcessed.status,
                     timestamp |-> LastProcessed.timestamp,
                     duration_ms |->
                        Some(Times1000(LastProcessed.timestamp
                             - requests[LastProcessed.request_id].request_timestamp))])
            /\ UNCHANGED <<db_writes, db_requests, db_metrics>>) ]_vars

\* the response of a request sent at 0 was processed at 50: the entry is stamped,
\* the event carries the duration and the only write is that of the initial record
C26_Witness ==
    /\ Len(processed) = 2
    /\ IsRequest(processed[1], "r1") /\ processed[1].timestamp = 0
    /\ IsResponse(processed[2], "r1")
    /\ "r1" \in DOMAIN requests
    /\ requests["r1"].status = Some(processed[2].status)
    /\ requests["r1"].response_timestamp = Some(50)
    /\ published[2].type = "NetworkResponse"
    /\ published[2].duration_ms = Some(Times1000(50))
    /\ db_writes = 1

-----------------------------------------------------------------------------
(* SpecArm: the NetworkRequest arm of process_cdp_event, statement by statement *)

\* what no statement of process_cdp_event touches, the position in the arm aside
armFrame == <<connVars, rxVars, ownerVars, collecting, poll_pc, bus_closed, start_pc,
              ticks, nraw, after_stop>>

\* the event process_cdp_event was last called with
InHand == processed[Len(processed)]

\* NetworkRequest arm: reqs.insert(request_id, TrackedRequest {..})
RequestInsert ==
    /\ corr_pc = "none"
    /\ Len(processed) < MaxProcessed
    /\ \E e \in NetworkEvents :
        /\ e.type = "NetworkRequest"
        /\ requests' = InsertRequest(e, requests)
        /\ processed' = Append(processed, e)
    /\ corr_pc' = "req_store"
    /\ UNCHANGED <<published, notified, db_requests, db_metrics, db_writes, armFrame>>

RequestStore_Skip ==
    /\ corr_pc = "req_store"
    /\ corr_pc' = "req_publish"
    /\ UNCHANGED <<requests, published, notified, db_requests, db_writes, db_metrics,
                   processed, armFrame>>

\* NetworkRequest arm: let _ = database.store_network_request(&stored_request)
RequestStore ==
    /\ corr_pc = "req_store"
    /\ \E store_ok \in BOOLEAN :
        db_requests' = IF store_ok
                       THEN StoreNetworkRequest(db_requests, InitialRecord(InHand))
                       ELSE db_requests
    /\ db_writes' = db_writes + 1
    /\ corr_pc' = "req_publish"
    /\ UNCHANGED <<requests, published, notified, db_metrics, processed, armFrame>>

\* NetworkRequest arm: handle.emit("metrics:network", ..); event_tx.send(metrics_event)
RequestPublish ==
    /\ corr_pc = "req_publish"
    /\ notified' = IF app_handle
                   THEN Append(notified, [name |-> "metrics:network",
                                          payload |-> RequestEvent(InHand)])
                   ELSE notified
    /\ published' = Append(published, RequestEvent(InHand))
    /\ corr_pc' = "none"
    /\ UNCHANGED <<requests, db_requests, db_metrics, db_writes, processed, armFrame>>

\* process_cdp_event with an event of any other kind
OtherArm ==
    /\ corr_pc = "none"
    /\ Len(processed) < MaxProcessed
    /\ \E e \in NetworkEvents \cup {EvConnected, EvDisconnected} :
        /\ e.type # "NetworkRequest"
        /\ \E store_ok \in StoreOutcomes(e) : ProcessCdpEvent(e, store_ok)
    /\ UNCHANGED <<corr_pc, armFrame>>

NextArm ==
    \/ RequestInsert
    \/ RequestStore
    \/ RequestPublish
    \/ OtherArm

SpecArm == Init /\ [][NextArm]_vars

\* how many request-sent events have been handed to process_cdp_event
RequestsProcessed ==
    Cardinality({k \in 1..Len(processed) : processed[k].type = "NetworkRequest"})

\* how many NetworkRequest events have been published
RequestsPublished ==
    Cardinality({k \in 1..Len(published) : published[k].type = "NetworkRequest"})

\* how many writes of an initial record have been attempted: every other write is
\* that of a final record, made together with a NetworkComplete event
InitialWrites == db_writes - NumCompletes(published)

\* C27: processing a request-sent event inserts a pending entry with
\* response_timestamp, status and size absent, then persists an initial record
\* without status and duration, then publishes one NetworkRequest event with the
\* event's id, url, method and timestamp: the write finds the entry in the table
\* and nothing published, the publication finds the write attempted.
C27_RequestArmInOrder ==
    /\ [][ corr_pc' = "req_store"
            => /\ InHand'.request_id \in DOMAIN requests'
               /\ requests'[InHand'.request_id].request_timestamp = InHand'.timestamp
               /\ requests'[InHand'.request_id].response_timestamp = None
               /\ requests'[InHand'.request_id].status = None
               /\ requests'[InHand'.request_id].encoded_data_length = None
               /\ InitialWrites' = RequestsProcessed' - 1
               /\ RequestsPublished' = RequestsProcessed' - 1 ]_vars
    /\ [][ corr_pc' = "req_publish"
            => /\ InitialWrites' = RequestsProcessed'
               /\ RequestsPublished' = RequestsProcessed' - 1
               /\ requests' = requests
               /\ db_requests' # db_requests
                    => /\ db_requests' =
                            StoreNetworkRequest(db_requests, db_requests'[InHand.request_id])
                       /\ db_requests'[InHand.request_id].url = InHand.url
                       /\ db_requests'[InHand.request_id].status_code = None
                       /\ db_requests'[InHand.request_id].duration_ms = None ]_vars
    /\ [][ (corr_pc = "req_publish" /\ corr_pc' # corr_pc)
            => /\ published' = Append(published,
                      [type |-> "NetworkRequest", request_id |-> InHand.request_id,
                       url |-> InHand.url, method |-> InHand.method,
                       timestamp |-> InHand.timestamp])
               /\ InitialWrites' = RequestsProcessed'
               /\ UNCHANGED <<requests, db_requests, db_writes>> ]_vars

\* the arm has run to its end for a request: entry, stored record and event exist
C27_Witness ==
    /\ corr_pc = "none"
    /\ Len(processed) = 1
    /\ processed[1].type = "NetworkRequest"
    /\ processed[1].request_id \in DOMAIN requests
    /\ processed[1].request_id \in DOMAIN db_requests
    /\ db_requests[processed[1].request_id].status_code = None
    /\ Len(published) = 1
    /\ published[1].type = "NetworkRequest"

\* the request of x was completed by a load-finished that no response-received of
\* x preceded, and nothing of x but response-received events has come since
FinishedBeforeResponse(x) ==
    /\ Latest(x) \in Pairs(x)
    /\ StampedStatus(Prior(Latest(x), x), Latest(x), x) = None

\* C28: when load-finished of a pending request is processed before its
\* response-received, the NetworkComplete event and the final stored record carry
\* an absent status and the entry is removed; the response-received that comes
\* later publishes NetworkResponse with duration_ms absent, creates no entry and
\* leaves the stored record as it is.
C28_FinishedBeforeResponse ==
    [][ (/\ ProcessedOne
         /\ LastProcessed.type = "NetworkResponse"
         /\ FinishedBeforeResponse(LastProcessed.request_id))
        => (/\ CompleteOfPair(Latest(LastProcessed.request_id),
                              LastProcessed.request_id).status = None
            /\ db_requests[LastProcessed.request_id].status_code = None
            /\ db_requests[LastProcessed.request_id].size_bytes # None
            /\ LastProcessed.request_id \notin DOMAIN requests'
            /\ requests' = requests
            /\ published' = Append(published,
                    [type |-> "NetworkResponse",
                     request_id |-> LastProcessed.request_id,
                     status |-> LastProcessed.status,
                     timestamp |-> LastProcessed.timestamp,
                     duration_ms |-> None])
            /\ UNCHANGED <<db_writes, db_requests>>) ]_vars

\* request, load-finished and then response-received of r1 were processed
C28_Witness ==
    /\ Len(processed) = 3
    /\ IsRequest(processed[1], "r1")
    /\ IsFinished(processed[2], "r1")
    /\ IsResponse(processed[3], "r1")
    /\ published[2].type = "NetworkComplete" /\ published[2].status = None
    /\ published[3].type = "NetworkResponse" /\ published[3].duration_ms = None
    /\ requests = <<>>
    /\ db_requests["r1"].status_code = None
    /\ db_requests["r1"].size_bytes = Some(processed[2].encoded_data_length)

-----------------------------------------------------------------------------
(* SpecDetach: CdpClient::disconnect() called beside a started collector *)

\* the caller that disconnects
Detacher == CHOOSE c \in Callers : TRUE

\* disconnect() is called on a client that is not already disconnected
DetachBegin == state # "Disconnected" /\ DisconnectBegin(Detacher)

NextDetach ==
    \/ StartNotConnected
    \/ StartExecute
    \/ StartReply
    \/ StartListen
    \/ StartSpawn
    \/ Stop
    \/ PollTick
    \/ PollExecute
    \/ PollReply
    \/ PollPublish
    \/ CorrCheck
    \/ CorrLagged
    \/ CorrEvent
    \/ DetachBegin
    \/ DisconnectPage(Detacher)
    \/ DisconnectBrowser(Detacher)
    \/ DisconnectState(Detacher)
    \/ DisconnectReturn(Detacher)
    \/ \E e \in RequestSentEvents : PageEvent(e)
    \/ \E i \in ListenerIds : ListenerForward(i)

SpecDetach == InitLoop /\ [][NextDetach]_vars

\* the step belongs to a disconnect() call
DisconnectStep ==
    \E c \in Callers :
        cpc'[c] # cpc[c] /\ (cpc[c] \in DisconnectPcs \/ cpc'[c] \in DisconnectPcs)

\* C29: disconnect() on the client does not clear the collecting flag, so while
\* stop() has not been called both loops of a started collector stay live; every
\* fetch the poll loop makes once the page is gone fails with NotConnected,
\* publishes, notifies and stores nothing, and the loop goes back to its ticker.
C29_DisconnectLeavesLoopsRunning ==
    /\ [][ DisconnectStep => UNCHANGED <<collecting, poll_pc, corr_pc>> ]_vars
    /\ [](collecting => (PollLive(poll_pc) /\ CorrLive(corr_pc)))
    /\ [][ (poll_pc = "fetch" /\ page = None /\ poll_pc' # poll_pc)
            => /\ poll_pc' = "tick"
               /\ UNCHANGED <<collecting, commands, published, notified, db_writes,
                              db_metrics>> ]_vars

\* disconnect() has returned, the flag is still set, and the poll loop has come
\* back from a tick made after it without a snapshot
C29_Witness ==
    /\ collecting
    /\ state = "Disconnected" /\ page = None
    /\ \A c \in Callers : cpc[c] = "idle"
    /\ ticks = 2
    /\ poll_pc = "tick"
    /\ Len(PerformancePublished) = 1
    /\ CorrLive(corr_pc)

-----------------------------------------------------------------------------
(* SpecProc: the disconnect_cdp procedure on a client with a held collector *)

\* MetricsCollectorHolder.collector is None: start_metrics_collection stores the
\* collector once start() has returned Ok, and the holder's owner releases it
HolderEmpty == dropped \/ start_pc # "Ok"

\* disconnect_cdp, up to the call of disconnect(): under the holder's write lock
\* the held collector, if any, is stopped and the holder is emptied
DisconnectCdpBegin ==
    /\ start_pc \in {"Ok", "NotConnected", "BrowserError"}
    /\ ~dropped
    /\ CallBegin(Detacher)
    /\ Goto(Detacher, "d_page")
    /\ collecting' = IF HolderEmpty THEN collecting ELSE FALSE
    /\ after_stop' = IF ~HolderEmpty /\ collecting
                     THEN [l \in {"poll", "corr"} |-> 0] ELSE after_stop
    /\ dropped' = TRUE
    /\ NoSend
    /\ UNCHANGED <<app_handle, current_session, fetched, prev_poll_pc, prev_corr_pc, poll_pc,
                   corr_pc, bus_closed, start_pc, ticks, nraw, sinkVars>>
    /\ UNCHANGED <<state, browser, page, handler, transport, commands, listeners>>

NextProc ==
    \/ StartNotConnected
    \/ StartExecute
    \/ StartReply
    \/ StartListen
    \/ StartSpawn
    \/ PollTick
    \/ PollExecute
    \/ PollReply
    \/ PollPublish
    \/ CorrCheck
    \/ CorrLagged
    \/ CorrEvent
    \/ DisconnectCdpBegin
    \/ DisconnectPage(Detacher)
    \/ DisconnectBrowser(Detacher)
    \/ DisconnectState(Detacher)
    \/ DisconnectReturn(Detacher)
    \/ \E e \in RequestSentEvents : PageEvent(e)
    \/ \E i \in ListenerIds : ListenerForward(i)

SpecProc == InitLoop /\ [][NextProc]_vars

\* SpecProc with start(), the spawned tasks and the running procedure scheduled
\* fairly; the page is not obliged to deliver events
FairProc ==
    /\ InitLoop
    /\ [][NextProc]_vars
    /\ WF_vars(StartNotConnected \/ StartExecute \/ StartReply \/ StartListen
               \/ StartSpawn)
    /\ WF_vars(PollTick \/ PollExecute \/ PollReply \/ PollPublish)
    /\ WF_vars(CorrCheck \/ CorrLagged \/ CorrEvent)
    /\ \A i \in ListenerIds : WF_vars(ListenerForward(i))
    /\ WF_vars(DisconnectPage(Detacher) \/ DisconnectBrowser(Detacher)
               \/ DisconnectState(Detacher) \/ DisconnectReturn(Detacher))

\* disconnect_cdp has returned
DisconnectCdpDone == dropped /\ cpc[Detacher] = "idle"

\* C30: when disconnect_cdp completes, the flag of the collector that was held is
\* false, the holder is empty and ConnectionState is Disconnected; and both loops
\* of that collector eventually terminate.
C30_DisconnectCdpStopsLoops ==
    /\ [](DisconnectCdpDone => (~collecting /\ HolderEmpty /\ state = "Disconnected"))
    /\ DisconnectCdpDone ~> (~PollLive(poll_pc) /\ ~CorrLive(corr_pc))

\* disconnect_cdp has completed on a started collector: the Disconnected event is
\* on the bus and both loops have ended
C30_Witness ==
    /\ DisconnectCdpDone
    /\ start_pc = "Ok"
    /\ ~collecting
    /\ state = "Disconnected"
    /\ cdp_events[Len(cdp_events)] = EvDisconnected
    /\ poll_pc = "done"
    /\ corr_pc = "done"
    /\ ticks > 0

-----------------------------------------------------------------------------
(* Claims about the listener tasks and the handles of the client *)

\* C31: once disconnect() has returned, the listener tasks that enable_network()
\* started on the connection publish no further NetworkRequest, NetworkResponse or
\* NetworkFinished event on the bus (they have exited).
C31_NoForwardAfterDisconnect ==
    [][ (state = "Disconnected" /\ cpc[Detacher] = "idle")
            => BusNetworkEvents' = BusNetworkEvents ]_vars

-----------------------------------------------------------------------------
(* SpecMap: get_performance_metrics maps the reply's name/value pairs *)

MaxPairs == 3

\* metric names a reply may carry: the six the match knows, one in another case
\* and one unknown
MetricNames ==
    {"JSHeapUsedSize", "JSHeapTotalSize", "Nodes", "LayoutCount", "ScriptDuration",
     "TaskDuration", "nodes", "Documents"}

MetricValues == {1, 2}

\* result.metrics: every list of at most MaxPairs name/value pairs
MetricLists ==
    UNION { [1..n -> [name : MetricNames, value : MetricValues]] : n \in 0..MaxPairs }

\* the fields of PerformanceMetrics as constructed, timestamp aside
NoFields ==
    [js_heap_used_size |-> None, js_heap_total_size |-> None, dom_nodes |-> None,
     layout_count |-> None, script_duration |-> None, task_duration |-> None]

AssignMetric_FirstWins(m, metric) ==
    CASE metric.name = "JSHeapUsedSize" /\ m.js_heap_used_size = None ->
            [m EXCEPT !.js_heap_used_size = Some(metric.value)]
      [] metric.name = "JSHeapTotalSize" /\ m.js_heap_total_size = None ->
            [m EXCEPT !.js_heap_total_size = Some(metric.value)]
      [] metric.name = "Nodes" /\ m.dom_nodes = None ->
            [m EXCEPT !.dom_nodes = Some(metric.value)]
      [] metric.name = "LayoutCount" /\ m.layout_count = None ->
            [m EXCEPT !.layout_count = Some(metric.value)]
      [] metric.name = "ScriptDuration" /\ m.script_duration = None ->
            [m EXCEPT !.script_duration = Some(metric.value)]
      [] metric.name = "TaskDuration" /\ m.task_duration = None ->
            [m EXCEPT !.task_duration = Some(metric.value)]
      [] OTHER -> m

\* match metric.name.as_str() { "JSHeapUsedSize" => .. = Some(metric.value), .., _ => {} }
AssignMetric(m, metric) ==
    CASE metric.name = "JSHeapUsedSize" ->
            [m EXCEPT !.js_heap_used_size = Some(metric.value)]
      [] metric.name = "JSHeapTotalSize" ->
            [m EXCEPT !.js_heap_total_size = Some(metric.value)]
      [] metric.name = "Nodes" -> [m EXCEPT !.dom_nodes = Some(metric.value)]
      [] metric.name = "LayoutCount" -> [m EXCEPT !.layout_count = Some(metric.value)]
      [] metric.name = "ScriptDuration" ->
            [m EXCEPT !.script_duration = Some(metric.value)]
      [] metric.name = "TaskDuration" -> [m EXCEPT !.task_duration = Some(metric.value)]
      [] OTHER -> m

\* for metric in &result.metrics { .. }
RECURSIVE MapMetrics(_, _)
MapMetrics(m, list) ==
    IF list = <<>> THEN m
    ELSE MapMetrics(AssignMetric(m, Head(list)), Tail(list))

\* get_performance_metrics() receives the reply of its call and returns Ok(metrics)
FetchMetrics ==
    /\ fetched = None
    /\ \E list \in MetricLists :
        fetched' = Some([pairs |-> list, metrics |-> MapMetrics(NoFields, list)])
    /\ UNCHANGED <<app_handle, dropped, current_session, prev_poll_pc, prev_corr_pc,
                   loopVars, sinkVars, rxVars, connVars>>

NextMap == FetchMetrics

SpecMap == Init /\ [][NextMap]_vars

\* the field of the snapshot that carries the metric of this name
FieldOf(m, name) ==
    CASE name = "JSHeapUsedSize" -> m.js_heap_used_size
      [] name = "JSHeapTotalSize" -> m.js_heap_total_size
      [] name = "Nodes" -> m.dom_nodes
      [] name = "LayoutCount" -> m.layout_count
      [] name = "ScriptDuration" -> m.script_duration
      [] name = "TaskDuration" -> m.task_duration

KnownNames ==
    {"JSHeapUsedSize", "JSHeapTotalSize", "Nodes", "LayoutCount", "ScriptDuration",
     "TaskDuration"}

\* C32: for every list of pairs, each of the six fields is present iff its exact
\* name occurs in the list, and then holds the value of the last occurrence; names
\* the match does not know change nothing (and the call returns Ok all the same).
C32_FieldsByExactName ==
    IsSome(fetched) =>
        LET list == Unwrap(fetched).pairs
            m == Unwrap(fetched).metrics
        IN  \A name \in KnownNames :
                LET at == {k \in DOMAIN list : list[k].name = name}
                IN  FieldOf(m, name) =
                        IF at = {} THEN None ELSE Some(list[MaxOf(at)].value)

\* a reply with the same name twice, another case of a name and an unknown name
C32_Witness ==
    /\ IsSome(fetched)
    /\ Unwrap(fetched).pairs =
          << [name |-> "Nodes", value |-> 1], [name |-> "nodes", value |-> 1],
             [name |-> "Nodes", value |-> 2] >>
    /\ Unwrap(fetched).metrics.dom_nodes = Some(2)
    /\ Unwrap(fetched).metrics.layout_count = None

-----------------------------------------------------------------------------
(* Further claims on CdpClient, checked under SpecConn *)

\* C33: whenever every connect() and disconnect() call made so far has returned,
\* ConnectionState is Connected iff the page handle and the browser handle are
\* both present, and Disconnected implies both are absent.
C33_HandlesAgreeWithState ==
    (\A c \in Callers : cpc[c] = "idle")
        => /\ (state = "Connected") <=> (IsSome(page) /\ IsSome(browser))
           /\ (state = "Disconnected") => (page = None /\ browser = None)

\* C34: each network protocol event the page delivers is forwarded onto the
\* CdpClient bus once, however often enable_network() has been called on the
\* connection: the bus never carries more network events than the page delivered.
C34_ForwardedOnce == Len(BusNetworkEvents) <= nraw

-----------------------------------------------------------------------------
(* Further claims about the collector and its holder *)

\* C35: the loops of at most one collector are live: once the holder has released
\* a collector (a new one was installed in its place, or stop_metrics_collection
\* or disconnect_cdp emptied the holder), its poll loop begins no further
\* iteration and its correlation loop waits for no further event.
C35_ReleasedCollectorStops ==
    [][ dropped => /\ ~(poll_pc = "tick" /\ poll_pc' = "fetch")
                   /\ ~(corr_pc = "check" /\ corr_pc' = "recv") ]_vars

-----------------------------------------------------------------------------
(* FairDetach: SpecDetach with the tasks scheduled fairly *)

\* every task that can take a step of its own eventually takes it: the poll
\* loop's ticker fires and its code runs, the correlation loop and the listener
\* tasks run, the disconnect() call proceeds when its lock is free. The page is
\* not obliged to answer a command: page.execute(..).await is awaited without a
\* timeout, so no fairness is put on the arrival of a reply.
FairDetach ==
    /\ InitLoop
    /\ [][NextDetach]_vars
    /\ WF_vars(StartNotConnected \/ StartExecute \/ StartListen \/ StartSpawn)
    /\ WF_vars(PollTick \/ PollExecute \/ PollPublish)
    /\ WF_vars(CorrCheck \/ CorrLagged \/ CorrEvent)
    /\ \A i \in ListenerIds : WF_vars(ListenerForward(i))
    /\ WF_vars(DisconnectPage(Detacher) \/ DisconnectBrowser(Detacher)
               \/ DisconnectState(Detacher) \/ DisconnectReturn(Detacher))

\* C36: a disconnect() call eventually returns, also while a call that holds the
\* page read lock is waiting for a protocol reply that never arrives.
C36_DisconnectReturns ==
    (cpc[Detacher] \in DisconnectPcs) ~> (cpc[Detacher] = "idle")

-----------------------------------------------------------------------------
(* SpecShared: the network_requests table shared by two sessions *)

\* the id of a session recorded before the engine's session
OtherSessionId == "s0"

\* Database::get_network_requests: the rows WHERE session_id = ?1 (as a set; the
\* ORDER BY request_time leaves the order of equal times open)
GetNetworkRequests(db, session_id) ==
    { db[id] : id \in { i \in DOMAIN db : db[i].session_id = session_id } }

\* the engine of the other session stored the initial record of a request it
\* observed (the NetworkRequest arm run with that engine's session id)
StoreForOtherSession ==
    /\ processed = <<>>
    /\ GetNetworkRequests(db_requests, OtherSessionId) = {}
    /\ \E e \in RequestSentEvents :
          db_requests' = StoreNetworkRequest(db_requests,
                            [InitialRecord(e) EXCEPT !.session_id = OtherSessionId])
    /\ UNCHANGED <<requests, published, notified, db_metrics, db_writes, processed>>
    /\ UNCHANGED <<connVars, loopVars, rxVars, ownerVars>>

NextShared ==
    \/ StoreForOtherSession
    \/ CorrProcessStored

SpecShared == Init /\ [][NextShared]_vars

\* C37: a record the engine persists for its own session leaves the records that
\* get_network_requests returns for another session as they were.
C37_OtherSessionUntouched ==
    [][ processed' # processed =>
            GetNetworkRequests(db_requests', OtherSessionId)
                = GetNetworkRequests(db_requests, OtherSessionId) ]_vars

-----------------------------------------------------------------------------
(* A request-sent event for an id that is already pending *)

\* C38: a request-sent event whose id already has a pending entry replaces that
\* entry (timestamp, url and method of the new event, no response data), the table
\* keeps one entry per id and one more NetworkRequest is published; the
\* load-finished event that follows publishes exactly one NetworkComplete, whose
\* duration counts from the latest request-sent of the id.
C38_RepeatedRequestReplaces ==
    [][ ProcessedOne =>
          LET e == LastProcessed
              i == Prior(Len(processed) + 1, e.request_id)
          IN  /\ (e.type = "NetworkRequest" /\ e.request_id \in DOMAIN requests) =>
                    /\ DOMAIN requests' = DOMAIN requests
                    /\ requests'[e.request_id] =
                          [request_id |-> e.request_id, url |-> e.url,
                           method |-> e.method, request_timestamp |-> e.timestamp,
                           response_timestamp |-> None, status |-> None,
                           encoded_data_length |-> None, finished_timestamp |-> None]
                    /\ \A y \in DOMAIN requests \ {e.request_id} :
                          requests'[y] = requests[y]
                    /\ published' = Append(published,
                          [type |-> "NetworkRequest", request_id |-> e.request_id,
                           url |-> e.url, method |-> e.method,
                           timestamp |-> e.timestamp])
              /\ (e.type = "NetworkFinished" /\ e.request_id \in DOMAIN requests) =>
                    /\ i > 0 /\ IsRequest(processed[i], e.request_id)
                    /\ Len(published') = Len(published) + 1
                    /\ published'[Len(published')].type = "NetworkComplete"
                    /\ published'[Len(published')].request_id = e.request_id
                    /\ published'[Len(published')].duration_ms =
                          e.timestamp - processed[i].timestamp ]_vars

\* two request-sent events of one id with different timestamps, then its
\* load-finished: the completion counts from the second
C38_Witness ==
    /\ Len(processed) = 3
    /\ IsRequest(processed[1], "r1") /\ processed[1].timestamp = 0
    /\ IsRequest(processed[2], "r1") /\ processed[2].timestamp = 50
    /\ IsFinished(processed[3], "r1")
    /\ Len(published) = 3
    /\ published[2].type = "NetworkRequest"
    /\ published[3].type = "NetworkComplete"
    /\ published[3].duration_ms = 150
    /\ requests = <<>>

-----------------------------------------------------------------------------
(* Events forwarded before the correlation loop has subscribed *)

\* C39: while the flag is set and the receiver has not lagged, every network event
\* the listener tasks have put on the bus since enable_network() started them has
\* been handed to process_cdp_event or waits in the correlation loop's receiver.
C39_NoEventMissed ==
    (start_pc = "Ok" /\ collecting /\ RxLive /\ ~rx_lagged
        /\ \A k \in 1..Len(cdp_rx) : cdp_rx[k].type # "Lagged")
      => BusNetworkEvents
            = SelectSeq(processed, IsNetwork) \o SelectSeq(cdp_rx, IsNetwork)

-----------------------------------------------------------------------------
(* The values of ConnectionState that are ever written *)

\* C40: in every reachable state the connection state is Disconnected, Connecting
\* or Connected; no operation writes Error(message), not even a failed connect().
C40_NeverError == state \in {"Disconnected", "Connecting", "Connected"}

\* a connect() call failed to open the connection and has returned its error
C40_Witness ==
    \E c \in Callers :
        /\ cpc[c] = "idle"
        /\ cret[c] = "ConnectionFailed"
        /\ browser = None
        /\ state = "Disconnected"

====
